---- MODULE Spec2Model ----
(***************************************************************************)
(* A model of the cedar-go authorizer (PolicySet.IsAuthorized,             *)
(* NewPolicySet) and of the experimental recursive-descent policy parser   *)
(* (x/exp/ast/parser.go).                                                  *)
(*                                                                         *)
(* Spec       : NewPolicySet followed by the IsAuthorized loop, one step   *)
(*              per policy of the set.                                     *)
(* ParseSpec  : policyFromCedar applied to bounded token sequences.        *)
(***************************************************************************)
EXTENDS Integers, Sequences, FiniteSets, TLC

VARIABLES
    pc,         \* position of the run: which call is in progress
    document,   \* outcome of parser.PolicySet.UnmarshalCedar: [res, err]
    policies,   \* the PolicySet NewPolicySet returned (<<>> is nil)
    nperr,      \* the error NewPolicySet returned ("" is nil)
    loc,        \* the locals of IsAuthorized
    decision,   \* the Decision IsAuthorized returned
    diag,       \* the Diagnostic IsAuthorized returned
    tokens,     \* the token slice handed to newParser
    parsed,     \* what policyFromCedar returned
    slices,     \* two []Value handed to NewSet
    sets,       \* the two Sets NewSet returned
    wire,       \* the bytes Decision.MarshalJSON returned
    decoded,    \* the Decision that Decision.UnmarshalJSON set
    frame,      \* a call of unmarshalJSON: the bytes b, the Value *v held
                \* when it was made (v0) and holds now (v), the error
    cursor      \* the parser's pos, and of its last call of advance: the
                \* pos it started from and the Token it returned

vars == <<pc, document, policies, nperr, loc, decision, diag, tokens, parsed,
          slices, sets, wire, decoded, frame,
                 cursor>>

----------------------------------------------------------------------------
(* Bounds *)

MaxPolicies == 3
MaxOperands == 4
MaxUnary == 2
MaxEntries == 3
MaxSlice == 4

----------------------------------------------------------------------------
(* No call of unmarshalJSON made *)

NoFrame == [b |-> <<>>, v0 |-> <<"nil">>, v |-> <<"nil">>, err |-> ""]

(* No parser made *)

NoCursor == [pos |-> 0, from |-> 0, t |-> [Type |-> "", Text |-> ""],
             advanced |-> FALSE]

----------------------------------------------------------------------------
(* Authorizer: data *)

Permit == TRUE
Forbid == FALSE
Allow == TRUE
Deny == FALSE

FileNames == {"policy.cedar"}

\* The conditions a policy of the model may carry.  Under the one request and
\* entity store of a run each evaluates to a fixed outcome.
Bodies == {"when { true }", "when { false }",
           "when { principal.age > 18 }", "when { 1 }"}

\* Length in bytes of the text of a parsed policy, which decides where the
\* next policy of the document starts.
TextLen(po) ==
    (IF po.Effect = Permit THEN 6 ELSE 7) + 31 + Len(po.ast) + 2

RECURSIVE OffsetOf(_, _)
OffsetOf(body, k) ==
    IF k <= 1 THEN 0 ELSE OffsetOf(body, k - 1) + TextLen(body[k - 1])

\* The positions the lexer gives the policies of a document: one policy per
\* line, byte offsets strictly increasing.
Positioned(body) ==
    [k \in 1..Len(body) |->
        [Position |-> [Offset |-> OffsetOf(body, k), Line |-> k, Column |-> 1],
         Effect   |-> body[k].Effect,
         ast      |-> body[k].ast]]

RawPolicies == [Effect : {Permit, Forbid}, ast : Bodies]

RawDocs == UNION {[1..k -> RawPolicies] : k \in 0..MaxPolicies}

\* What UnmarshalCedar may hand back: the parsed policies and no error, or an
\* error together with whatever was parsed before it.
Documents ==
    {[res |-> Positioned(b), err |-> e] : b \in RawDocs, e \in {"", "parse error"}}

\* po.eval.Eval(c) for the request of the run.
Eval(po) ==
    CASE po.eval = "when { true }"  -> [v |-> <<"Boolean", TRUE>>,  err |-> ""]
      [] po.eval = "when { false }" -> [v |-> <<"Boolean", FALSE>>, err |-> ""]
      [] po.eval = "when { 1 }"     -> [v |-> <<"Long", 1>>,        err |-> ""]
      [] OTHER -> [v |-> <<"nil">>, err |-> "attribute age does not exist"]

\* types.ValueToBool
ValueToBool(v) ==
    IF v[1] = "Boolean"
    THEN [b |-> v[2], err |-> ""]
    ELSE [b |-> FALSE, err |-> "type error: expected bool"]

----------------------------------------------------------------------------
(* NewPolicySet *)

\* NewPolicySet, were it to build the set back to front.
NewPolicySetMixedOrder(fileName, doc) ==
    IF doc.err # ""
    THEN [policies |-> <<>>, err |-> "parser error: " \o doc.err]
    ELSE [policies |->
            [k \in 1..Len(doc.res) |->
                LET p == doc.res[Len(doc.res) + 1 - k] IN
                [Position |-> [Filename |-> fileName,
                               Offset   |-> p.Position.Offset,
                               Line     |-> p.Position.Line,
                               Column   |-> p.Position.Column],
                 Effect |-> p.Effect,
                 eval   |-> p.ast,
                 ast    |-> p.ast]],
          err |-> ""]

\* NewPolicySet as a function of the file name and of what UnmarshalCedar
\* returned.
NewPolicySetOf(fileName, doc) ==
    IF doc.err # ""
    THEN [policies |-> <<>>, err |-> "parser error: " \o doc.err]
    ELSE [policies |->
            [k \in 1..Len(doc.res) |->
                LET p == doc.res[k] IN
                [Position |-> [Filename |-> fileName,
                               Offset   |-> p.Position.Offset,
                               Line     |-> p.Position.Line,
                               Column   |-> p.Position.Column],
                 Effect |-> p.Effect,
                 eval   |-> p.ast,
                 ast    |-> p.ast]],
          err |-> ""]

----------------------------------------------------------------------------
(* PolicySet.IsAuthorized *)

\* The locals as declared at the top of IsAuthorized.  n is the index of the
\* next policy of the range loop (0-based, as in the source); evals is the
\* list of the indices Eval was called on.
InitLocals ==
    [n |-> 0, gotForbid |-> FALSE, forbidReasons |-> <<>>,
     gotPermit |-> FALSE, permitReasons |-> <<>>, errors |-> <<>>,
     evals |-> <<>>]

\* LoopBody, were it to stop evaluating once a forbid policy has fired.
LoopBodyShortCircuit(l, po) ==
    LET r    == Eval(po)
        vb   == ValueToBool(r.v)
        next == [l EXCEPT !.n = l.n + 1, !.evals = Append(l.evals, l.n)]
    IN  IF l.gotForbid
        THEN [l EXCEPT !.n = l.n + 1]
        ELSE IF r.err # ""
        THEN [next EXCEPT !.errors = Append(l.errors,
                 [Policy |-> l.n, Position |-> po.Position, Message |-> r.err])]
        ELSE IF vb.err # ""
        THEN [next EXCEPT !.errors = Append(l.errors,
                 [Policy |-> l.n, Position |-> po.Position, Message |-> vb.err])]
        ELSE IF ~vb.b
        THEN next
        ELSE IF po.Effect = Forbid
        THEN [next EXCEPT
                 !.forbidReasons = Append(l.forbidReasons,
                     [Policy |-> l.n, Position |-> po.Position]),
                 !.gotForbid = TRUE]
        ELSE [next EXCEPT
                 !.permitReasons = Append(l.permitReasons,
                     [Policy |-> l.n, Position |-> po.Position]),
                 !.gotPermit = TRUE]

\* LoopBody, were an erroring forbid policy to count as a forbid (fail closed).
LoopBodyErrorDenies(l, po) ==
    LET r    == Eval(po)
        vb   == ValueToBool(r.v)
        next == [l EXCEPT !.n = l.n + 1, !.evals = Append(l.evals, l.n)]
    IN  IF r.err # ""
        THEN [next EXCEPT !.errors = Append(l.errors,
                 [Policy |-> l.n, Position |-> po.Position, Message |-> r.err]),
                 !.gotForbid = (l.gotForbid \/ po.Effect = Forbid)]
        ELSE IF vb.err # ""
        THEN [next EXCEPT !.errors = Append(l.errors,
                 [Policy |-> l.n, Position |-> po.Position, Message |-> vb.err])]
        ELSE IF ~vb.b
        THEN next
        ELSE IF po.Effect = Forbid
        THEN [next EXCEPT
                 !.forbidReasons = Append(l.forbidReasons,
                     [Policy |-> l.n, Position |-> po.Position]),
                 !.gotForbid = TRUE]
        ELSE [next EXCEPT
                 !.permitReasons = Append(l.permitReasons,
                     [Policy |-> l.n, Position |-> po.Position]),
                 !.gotPermit = TRUE]

\* LoopBody, were the test of the effect inverted.
LoopBodySwappedEffects(l, po) ==
    LET r    == Eval(po)
        vb   == ValueToBool(r.v)
        next == [l EXCEPT !.n = l.n + 1, !.evals = Append(l.evals, l.n)]
    IN  IF r.err # ""
        THEN [next EXCEPT !.errors = Append(l.errors,
                 [Policy |-> l.n, Position |-> po.Position, Message |-> r.err])]
        ELSE IF vb.err # ""
        THEN [next EXCEPT !.errors = Append(l.errors,
                 [Policy |-> l.n, Position |-> po.Position, Message |-> vb.err])]
        ELSE IF ~vb.b
        THEN next
        ELSE IF po.Effect # Forbid
        THEN [next EXCEPT
                 !.forbidReasons = Append(l.forbidReasons,
                     [Policy |-> l.n, Position |-> po.Position]),
                 !.gotForbid = TRUE]
        ELSE [next EXCEPT
                 !.permitReasons = Append(l.permitReasons,
                     [Policy |-> l.n, Position |-> po.Position]),
                 !.gotPermit = TRUE]

\* One iteration of the range loop, on policy po at index l.n.
LoopBody(l, po) ==
    LET r    == Eval(po)
        vb   == ValueToBool(r.v)
        next == [l EXCEPT !.n = l.n + 1, !.evals = Append(l.evals, l.n)]
    IN  IF r.err # ""
        THEN [next EXCEPT !.errors = Append(l.errors,
                 [Policy |-> l.n, Position |-> po.Position, Message |-> r.err])]
        ELSE IF vb.err # ""
        THEN [next EXCEPT !.errors = Append(l.errors,
                 [Policy |-> l.n, Position |-> po.Position, Message |-> vb.err])]
        ELSE IF ~vb.b
        THEN next
        ELSE IF po.Effect = Forbid
        THEN [next EXCEPT
                 !.forbidReasons = Append(l.forbidReasons,
                     [Policy |-> l.n, Position |-> po.Position]),
                 !.gotForbid = TRUE]
        ELSE [next EXCEPT
                 !.permitReasons = Append(l.permitReasons,
                     [Policy |-> l.n, Position |-> po.Position]),
                 !.gotPermit = TRUE]

\* Conclude, were a permit enough to allow.
ConcludePermitWins(l) ==
    [Decision |-> l.gotPermit,
     Diagnostic |->
        [Reasons |-> IF l.gotForbid THEN l.forbidReasons
                     ELSE IF l.gotPermit THEN l.permitReasons
                     ELSE <<>>,
         Errors |-> l.errors]]

\* Conclude, were it to report every policy that fired.
ConcludeAllReasons(l) ==
    [Decision |-> (l.gotPermit /\ ~l.gotForbid),
     Diagnostic |->
        [Reasons |-> l.forbidReasons \o l.permitReasons,
         Errors |-> l.errors]]

\* The statements after the loop: the reasons kept and the decision.
Conclude(l) ==
    [Decision |-> (l.gotPermit /\ ~l.gotForbid),
     Diagnostic |->
        [Reasons |-> IF l.gotForbid THEN l.forbidReasons
                     ELSE IF l.gotPermit THEN l.permitReasons
                     ELSE <<>>,
         Errors |-> l.errors]]

RECURSIVE RunLoop(_, _)
RunLoop(l, ps) ==
    IF l.n >= Len(ps) THEN l ELSE RunLoop(LoopBody(l, ps[l.n + 1]), ps)

\* IsAuthorized as a function of the policy set.
IsAuthorizedOf(ps) == Conclude(RunLoop(InitLocals, ps))

----------------------------------------------------------------------------
(* Parser: tokens *)

\* A Token is [Type, Text]; the lexer gives every word (keywords included)
\* the type "ident", every run of digits "int", every quoted literal
\* "string", every punctuation "op", and ends the slice with one "eof" token.
TokIdent(text)  == [Type |-> "ident",  Text |-> text]
TokInt(text)    == [Type |-> "int",    Text |-> text]
TokString(text) == [Type |-> "string", Text |-> text]
TokOp(text)     == [Type |-> "op",     Text |-> text]
TokEOF == [Type |-> "eof", Text |-> ""]
ZeroToken == [Type |-> "", Text |-> ""]

isIdent(t)  == t.Type = "ident"
isInt(t)    == t.Type = "int"
isString(t) == t.Type = "string"

Nil == <<>>

\* The nil error.
NoErr == [kind |-> "none", at |-> -1, text |-> "", msg |-> ""]
Failed(r) == r.err.kind # "none"

\* An error made outside errorf (by a token's value, by netip or strconv): it
\* carries no position.
RawError(msg) == [kind |-> "raw", at |-> -1, text |-> "", msg |-> msg]

\* Token.intValue: the decimal value of an int token, an error when it does
\* not fit 64 bits.
intValue(t) ==
    CASE t.Text = "0"  -> [val |-> 0,  err |-> NoErr]
      [] t.Text = "1"  -> [val |-> 1,  err |-> NoErr]
      [] t.Text = "2"  -> [val |-> 2,  err |-> NoErr]
      [] t.Text = "3"  -> [val |-> 3,  err |-> NoErr]
      [] t.Text = "4"  -> [val |-> 4,  err |-> NoErr]
      [] t.Text = "5"  -> [val |-> 5,  err |-> NoErr]
      [] t.Text = "6"  -> [val |-> 6,  err |-> NoErr]
      [] t.Text = "10" -> [val |-> 10, err |-> NoErr]
      [] t.Text = "14" -> [val |-> 14, err |-> NoErr]
      [] t.Text = "18" -> [val |-> 18, err |-> NoErr]
      [] t.Text = "42" -> [val |-> 42, err |-> NoErr]
      [] t.Text = "43" -> [val |-> 43, err |-> NoErr]
      [] OTHER -> [val |-> 0, err |-> RawError("value out of range")]

\* Token.stringValue: the literal without its quotes and with its escapes
\* resolved (\* gives *), an error on a bad escape.
stringValue(t) ==
    CASE t.Text = "\"johnny\""     -> [val |-> "johnny",     err |-> NoErr]
      [] t.Text = "\"joh\\*nny\""  -> [val |-> "joh*nny",    err |-> NoErr]
      [] t.Text = "\"*\""          -> [val |-> "*",          err |-> NoErr]
      [] t.Text = "\"j*\""         -> [val |-> "j*",         err |-> NoErr]
      [] t.Text = "\"bar\""        -> [val |-> "bar",        err |-> NoErr]
      [] t.Text = "\"foo\""        -> [val |-> "foo",        err |-> NoErr]
      [] t.Text = "\"k\""          -> [val |-> "k",          err |-> NoErr]
      [] t.Text = "\"sow\""        -> [val |-> "sow",        err |-> NoErr]
      [] t.Text = "\"apple\""      -> [val |-> "apple",      err |-> NoErr]
      [] t.Text = "\"folkHeroes\"" -> [val |-> "folkHeroes", err |-> NoErr]
      [] t.Text = "\"farming\""    -> [val |-> "farming",    err |-> NoErr]
      [] t.Text = "\"forestry\""   -> [val |-> "forestry",   err |-> NoErr]
      [] t.Text = "\"1.2.3.4\""    -> [val |-> "1.2.3.4",    err |-> NoErr]
      [] t.Text = "\"10.0.0.0/8\"" -> [val |-> "10.0.0.0/8", err |-> NoErr]
      [] t.Text = "\"::1\""        -> [val |-> "::1",        err |-> NoErr]
      [] t.Text = "\"::1/128\""    -> [val |-> "::1/128",    err |-> NoErr]
      [] t.Text = "\"12.34\""      -> [val |-> "12.34",      err |-> NoErr]
      [] t.Text = "\"nope\""       -> [val |-> "nope",       err |-> NoErr]
      [] OTHER -> [val |-> "", err |-> RawError("bad char escape")]

\* netip.ParsePrefix: an address, a slash and a prefix length; a string
\* without a slash is refused.
ParsePrefix(str) ==
    CASE str = "10.0.0.0/8" -> [val |-> <<"10.0.0.0", 8>>, err |-> NoErr]
      [] str = "::1/128"    -> [val |-> <<"::1", 128>>,    err |-> NoErr]
      [] str = "1.2.3.4"    -> [val |-> Nil, err |-> RawError("netip.ParsePrefix: no '/'")]
      [] str = "::1"        -> [val |-> Nil, err |-> RawError("netip.ParsePrefix: no '/'")]
      [] OTHER -> [val |-> Nil, err |-> RawError("netip.ParsePrefix: no '/'")]

\* strconv.ParseFloat(str, 64)
ParseFloat(str) ==
    CASE str = "12.34" -> [val |-> <<1234, 100>>, err |-> NoErr]
      [] OTHER -> [val |-> Nil, err |-> RawError("strconv.ParseFloat: invalid syntax")]

----------------------------------------------------------------------------
(* Parser: the cursor.  ts is p.tokens, i is p.pos (0-based).  Every parsing *)
(* function returns [pos, val, err]: the cursor it leaves, its result, and  *)
(* its error (Nil when none).                                               *)

OkR(i, v)  == [pos |-> i, val |-> v, err |-> NoErr]
ErrR(i, e) == [pos |-> i, val |-> Nil, err |-> e]

peek(ts, i) == ts[i + 1]

\* advance, were it to step without looking at the length of the slice.
advanceUnguarded(ts, i) == [t |-> ts[i + 1], pos |-> i + 1]

\* advance, were it to stop one token before the last.
advanceStopsEarly(ts, i) ==
    [t |-> ts[i + 1], pos |-> IF i < Len(ts) - 2 THEN i + 1 ELSE i]

advance(ts, i) ==
    [t |-> peek(ts, i), pos |-> IF i < Len(ts) - 1 THEN i + 1 ELSE i]

\* errorf, were it to quote the token the cursor has just passed.
errorfAtConsumed(ts, i, msg) ==
    LET k == IF i > 0 THEN i - 1 ELSE i
        t == IF k < Len(ts) THEN ts[k + 1] ELSE ZeroToken
    IN  [kind |-> "parse", at |-> k, text |-> t.Text, msg |-> msg]

\* errorf quotes the token under the cursor at the time it is called.
errorf(ts, i, msg) ==
    LET t == IF i < Len(ts) THEN ts[i + 1] ELSE ZeroToken
    IN  [kind |-> "parse", at |-> i, text |-> t.Text, msg |-> msg]

exact(ts, i, tok) ==
    LET a == advance(ts, i)
    IN  IF a.t.Text # tok
        THEN ErrR(a.pos, errorf(ts, a.pos,
                 "exact got " \o a.t.Text \o " want " \o tok))
        ELSE OkR(a.pos, Nil)

----------------------------------------------------------------------------
(* Parser: the policy under construction and the nodes of its conditions *)

NewPolicy(effect, annots) ==
    [Effect |-> effect, Annotations |-> annots,
     Principal |-> <<"All">>, Action |-> <<"All">>, Resource |-> <<"All">>,
     Conditions |-> <<>>]

EntityUID(type, id) == [Type |-> type, ID |-> id]

Long(n)    == <<"Long", n>>
String(str) == <<"String", str>>
True       == <<"Boolean", TRUE>>
False      == <<"Boolean", FALSE>>
Principal  == <<"Principal">>
Action     == <<"Action">>
Resource   == <<"Resource">>
Context    == <<"Context">>
Entity(uid) == <<"EntityUID", uid>>
IPAddr(pfx) == <<"IPAddr", pfx>>
Decimal(d) == <<"Decimal", d>>
SetNodes(elems) == <<"Set", elems>>
RecordNodes(entries) == <<"Record", entries>>
If(c, t, e) == <<"If", c, t, e>>
Not(x)     == <<"Not", x>>
Negate(x)  == <<"Negate", x>>
Or(l, r)   == <<"Or", l, r>>
And(l, r)  == <<"And", l, r>>
Plus(l, r)  == <<"Add", l, r>>
Minus(l, r) == <<"Subtract", l, r>>
Times(l, r) == <<"Multiply", l, r>>
Has(l, attr) == <<"Has", l, attr>>
Is(l, type) == <<"Is", l, type>>
IsIn(l, type, r) == <<"IsIn", l, type, r>>
Access(l, attr) == <<"Access", l, attr>>
newExtMethodCallNode(l, name, args) == <<"ExtensionMethod", l, name, args>>

\* The table `operators` of relation: the node a relational token builds.
RelOperators == {"<", "<=", ">", ">=", "!=", "==", "in"}
RelNode(op, l, r) ==
    CASE op = "<"  -> <<"LessThan", l, r>>
      [] op = "<=" -> <<"LessThanOrEqual", l, r>>
      [] op = ">"  -> <<"GreaterThan", l, r>>
      [] op = ">=" -> <<"GreaterThanOrEqual", l, r>>
      [] op = "!=" -> <<"NotEquals", l, r>>
      [] op = "==" -> <<"Equals", l, r>>
      [] op = "in" -> <<"In", l, r>>

\* The table `knownMethods` of access.
KnownMethods == {"contains", "containsAll", "containsAny"}
MethodNode(name, l, r) ==
    CASE name = "contains"    -> <<"Contains", l, r>>
      [] name = "containsAll" -> <<"ContainsAll", l, r>>
      [] name = "containsAny" -> <<"ContainsAny", l, r>>

----------------------------------------------------------------------------
(* Parser: sequencing.  `if err != nil { return ..., err }` after a call is *)
(* Then: the rest of the function runs on the call's result only when the  *)
(* call did not fail.                                                      *)

Then(r, K(_)) == IF Failed(r) THEN ErrR(r.pos, r.err) ELSE K(r)

\* The rest of a function on a call's result, failed or not.
With(r, K(_)) == K(r)

\* The same for a token's value (or netip's, strconv's), which has no cursor:
\* i is the cursor at the time of the call.
ThenVal(v, i, K(_)) == IF Failed(v) THEN ErrR(i, v.err) ELSE K(v.val)

----------------------------------------------------------------------------
(* Parser: annotations, effect and scope *)

annotation(ts, i, a) ==
    LET t1 == advance(ts, i) IN
    IF ~isIdent(t1.t)
    THEN ErrR(t1.pos, errorf(ts, t1.pos, "expected ident"))
    ELSE Then(exact(ts, t1.pos, "("), LAMBDA e1 :
         LET t2 == advance(ts, e1.pos) IN
         IF ~isString(t2.t)
         THEN ErrR(t2.pos, errorf(ts, t2.pos, "expected string"))
         ELSE ThenVal(stringValue(t2.t), t2.pos, LAMBDA value :
              Then(exact(ts, t2.pos, ")"), LAMBDA e2 :
              OkR(e2.pos, Append(a, <<t1.t.Text, value>>)))))

RECURSIVE annotationsLoop(_, _, _)
annotationsLoop(ts, i, res) ==
    IF peek(ts, i).Text = "@"
    THEN Then(annotation(ts, advance(ts, i).pos, res), LAMBDA r :
         annotationsLoop(ts, r.pos, r.val))
    ELSE OkR(i, res)

annotations(ts, i) == annotationsLoop(ts, i, <<>>)

effect(ts, i, a) ==
    LET next == advance(ts, i) IN
    IF next.t.Text = "permit" THEN OkR(next.pos, NewPolicy("permit", a))
    ELSE IF next.t.Text = "forbid" THEN OkR(next.pos, NewPolicy("forbid", a))
    ELSE ErrR(next.pos, errorf(ts, next.pos,
             "unexpected effect: " \o next.t.Text))

\* The for loop of entityFirstPathPreread; type is res.Type so far.
RECURSIVE entityLoop(_, _, _)
entityLoop(ts, i, type) ==
    Then(exact(ts, i, "::"), LAMBDA e :
    LET t == advance(ts, e.pos) IN
    IF isIdent(t.t) THEN entityLoop(ts, t.pos, type \o "::" \o t.t.Text)
    ELSE IF isString(t.t)
    THEN ThenVal(stringValue(t.t), t.pos, LAMBDA id :
         OkR(t.pos, EntityUID(type, id)))
    ELSE ErrR(t.pos, errorf(ts, t.pos, "unexpected token")))

entityFirstPathPreread(ts, i, firstPath) == entityLoop(ts, i, firstPath)

entity(ts, i) ==
    LET t == advance(ts, i) IN
    IF ~isIdent(t.t)
    THEN ErrR(t.pos, errorf(ts, t.pos, "expected ident"))
    ELSE entityFirstPathPreread(ts, t.pos, t.t.Text)

\* The for loop of path.
RECURSIVE pathLoop(_, _, _)
pathLoop(ts, i, res) ==
    IF peek(ts, i).Text # "::" THEN OkR(i, res) ELSE
    LET t == advance(ts, advance(ts, i).pos) IN
    IF isIdent(t.t) THEN pathLoop(ts, t.pos, res \o "::" \o t.t.Text)
    ELSE ErrR(t.pos, errorf(ts, t.pos, "unexpected token"))

path(ts, i) ==
    LET t == advance(ts, i) IN
    IF ~isIdent(t.t)
    THEN ErrR(t.pos, errorf(ts, t.pos, "expected ident"))
    ELSE pathLoop(ts, t.pos, t.t.Text)

\* scopeConstraint, were `in` to build the constraint of `==`.
scopeConstraintInAsEq(ts, i, constraint) ==
    LET sw == peek(ts, i).Text
        a  == advance(ts, i).pos
    IN  CASE sw = "==" ->
               Then(entity(ts, a), LAMBDA r : OkR(r.pos, <<"Eq", r.val>>))
          [] sw = "is" ->
               Then(path(ts, a), LAMBDA pt :
               IF peek(ts, pt.pos).Text = "in"
               THEN Then(entity(ts, advance(ts, pt.pos).pos), LAMBDA r :
                    OkR(r.pos, <<"IsIn", pt.val, r.val>>))
               ELSE OkR(pt.pos, <<"Is", pt.val>>))
          [] sw = "in" ->
               Then(entity(ts, a), LAMBDA r : OkR(r.pos, <<"Eq", r.val>>))
          [] OTHER -> OkR(i, constraint)

\* The switch of principal and of resource: the constraint that follows the
\* variable; when none does the switch has no case and the policy keeps the
\* constraint it has.
scopeConstraint(ts, i, constraint) ==
    LET sw == peek(ts, i).Text
        a  == advance(ts, i).pos
    IN  CASE sw = "==" ->
               Then(entity(ts, a), LAMBDA r : OkR(r.pos, <<"Eq", r.val>>))
          [] sw = "is" ->
               Then(path(ts, a), LAMBDA pt :
               IF peek(ts, pt.pos).Text = "in"
               THEN Then(entity(ts, advance(ts, pt.pos).pos), LAMBDA r :
                    OkR(r.pos, <<"IsIn", pt.val, r.val>>))
               ELSE OkR(pt.pos, <<"Is", pt.val>>))
          [] sw = "in" ->
               Then(entity(ts, a), LAMBDA r : OkR(r.pos, <<"In", r.val>>))
          [] OTHER -> OkR(i, constraint)

principal(ts, i, policy) ==
    Then(exact(ts, i, "principal"), LAMBDA e :
    Then(scopeConstraint(ts, e.pos, policy.Principal), LAMBDA c :
    OkR(c.pos, [policy EXCEPT !.Principal = c.val])))

\* The for loop of entlist.
RECURSIVE entlistLoop(_, _, _)
entlistLoop(ts, i, res) ==
    IF peek(ts, i).Text = "]" THEN OkR(i, res) ELSE
    Then(IF Len(res) > 0 THEN exact(ts, i, ",") ELSE OkR(i, Nil), LAMBDA c :
    Then(entity(ts, c.pos), LAMBDA e :
    entlistLoop(ts, e.pos, Append(res, e.val))))

entlist(ts, i) == entlistLoop(ts, i, <<>>)

action(ts, i, policy) ==
    Then(exact(ts, i, "action"), LAMBDA e :
    LET sw == peek(ts, e.pos).Text
        a  == advance(ts, e.pos).pos
    IN  CASE sw = "==" ->
               Then(entity(ts, a), LAMBDA r :
               OkR(r.pos, [policy EXCEPT !.Action = <<"Eq", r.val>>]))
          [] sw = "in" ->
               IF peek(ts, a).Text = "["
               THEN Then(entlist(ts, advance(ts, a).pos), LAMBDA es :
                    OkR(advance(ts, es.pos).pos,
                        [policy EXCEPT !.Action = <<"InSet", es.val>>]))
               ELSE Then(entity(ts, a), LAMBDA r :
                    OkR(r.pos, [policy EXCEPT !.Action = <<"In", r.val>>]))
          [] OTHER -> OkR(e.pos, policy))

resource(ts, i, policy) ==
    Then(exact(ts, i, "resource"), LAMBDA e :
    Then(scopeConstraint(ts, e.pos, policy.Resource), LAMBDA c :
    OkR(c.pos, [policy EXCEPT !.Resource = c.val])))

----------------------------------------------------------------------------
(* Parser: expressions *)

\* The outcome of a call that does not return.  On the last token of the
\* slice advance leaves the cursor where it is; a function that reads that
\* token and then parses an operand from the same cursor reads it again,
\* without end: the loop of unary on ! and -, the recursion of expression
\* on if and of primary on ( and [.
Hang(ts, i) == [kind |-> "hang", at |-> i, text |-> peek(ts, i).Text, msg |-> ""]

RECURSIVE expression(_, _), or(_, _), and(_, _), relation(_, _), add(_, _),
          mult(_, _), unary(_, _), unaryLoop(_, _, _), member(_, _),
          memberLoop(_, _, _), primary(_, _), expressions(_, _, _),
          expressionsLoop(_, _, _, _), record(_, _), recordLoop(_, _, _),
          recordEntry(_, _), access(_, _, _)

expression(ts, i) ==
    IF peek(ts, i).Text = "if" /\ advance(ts, i).pos = i
    THEN ErrR(i, Hang(ts, i))
    ELSE IF peek(ts, i).Text = "if"
    THEN Then(expression(ts, advance(ts, i).pos), LAMBDA condition :
         Then(exact(ts, condition.pos, "then"), LAMBDA e1 :
         Then(expression(ts, e1.pos), LAMBDA ifTrue :
         Then(exact(ts, ifTrue.pos, "else"), LAMBDA e2 :
         Then(expression(ts, e2.pos), LAMBDA ifFalse :
         OkR(ifFalse.pos, If(condition.val, ifTrue.val, ifFalse.val)))))))
    ELSE or(ts, i)

or(ts, i) ==
    Then(and(ts, i), LAMBDA lhs :
    IF peek(ts, lhs.pos).Text # "||" THEN lhs ELSE
    Then(and(ts, advance(ts, lhs.pos).pos), LAMBDA rhs :
    OkR(rhs.pos, Or(lhs.val, rhs.val))))

and(ts, i) ==
    Then(relation(ts, i), LAMBDA lhs :
    IF peek(ts, lhs.pos).Text # "&&" THEN lhs ELSE
    Then(relation(ts, advance(ts, lhs.pos).pos), LAMBDA rhs :
    OkR(rhs.pos, And(lhs.val, rhs.val))))

relation(ts, i) ==
    Then(add(ts, i), LAMBDA lhs :
    LET t == peek(ts, lhs.pos)
        a == advance(ts, lhs.pos).pos
    IN  IF t.Text \in RelOperators
        THEN Then(add(ts, a), LAMBDA rhs :
             OkR(rhs.pos, RelNode(t.Text, lhs.val, rhs.val)))
        ELSE IF t.Text = "has"
        THEN LET t2 == advance(ts, a) IN
             IF isIdent(t2.t) THEN OkR(t2.pos, Has(lhs.val, t2.t.Text))
             ELSE IF isString(t2.t)
             THEN ThenVal(stringValue(t2.t), t2.pos, LAMBDA str :
                  OkR(t2.pos, Has(lhs.val, str)))
             ELSE ErrR(t2.pos, errorf(ts, t2.pos, "expected ident or string"))
        ELSE IF t.Text = "like"
        THEN ErrR(lhs.pos, errorf(ts, lhs.pos, "unimplemented"))
        ELSE IF t.Text = "is"
        THEN Then(path(ts, a), LAMBDA entityType :
             IF peek(ts, entityType.pos).Text = "in"
             THEN Then(add(ts, advance(ts, entityType.pos).pos),
                       LAMBDA inEntity :
                  OkR(inEntity.pos,
                      IsIn(lhs.val, entityType.val, inEntity.val)))
             ELSE OkR(entityType.pos, Is(lhs.val, entityType.val)))
        ELSE lhs)

add(ts, i) ==
    Then(mult(ts, i), LAMBDA lhs :
    LET t == peek(ts, lhs.pos).Text IN
    IF t \in {"+", "-"}
    THEN Then(mult(ts, advance(ts, lhs.pos).pos), LAMBDA rhs :
         OkR(rhs.pos, IF t = "+" THEN Plus(lhs.val, rhs.val)
                      ELSE Minus(lhs.val, rhs.val)))
    ELSE lhs)

\* mult, were its right operand parsed one level too loose.
multLooseRhs(ts, i) ==
    Then(unary(ts, i), LAMBDA lhs :
    IF peek(ts, lhs.pos).Text # "*" THEN lhs ELSE
    Then(add(ts, advance(ts, lhs.pos).pos), LAMBDA rhs :
    OkR(rhs.pos, Times(lhs.val, rhs.val))))

mult(ts, i) ==
    Then(unary(ts, i), LAMBDA lhs :
    IF peek(ts, lhs.pos).Text # "*" THEN lhs ELSE
    Then(unary(ts, advance(ts, lhs.pos).pos), LAMBDA rhs :
    OkR(rhs.pos, Times(lhs.val, rhs.val))))

\* The last loop of unary: ops applied from the innermost (last read) out.
RECURSIVE applyOps(_, _, _)
applyOps(ops, k, res) ==
    IF k < 1 THEN res
    ELSE applyOps(ops, k - 1,
             IF ops[k] = "Not" THEN Not(res) ELSE Negate(res))

\* The for loop of unary.  On a slice whose last token is ! or - the cursor
\* no longer moves and the loop never ends: the outcome "hang".
unaryLoop(ts, i, ops) ==
    LET op == peek(ts, i).Text
        a  == advance(ts, i).pos
    IN  IF op \in {"!", "-"}
        THEN IF a = i
             THEN ErrR(i, Hang(ts, i))
             ELSE unaryLoop(ts, a,
                      Append(ops, IF op = "!" THEN "Not" ELSE "Negate"))
        ELSE Then(member(ts, i), LAMBDA res :
             OkR(res.pos, applyOps(ops, Len(ops), res.val)))

unary(ts, i) == unaryLoop(ts, i, <<>>)

\* A result of access: a result with the flag ok.
AccR(i, v, ok, e) == [pos |-> i, val |-> v, ok |-> ok, err |-> e]

\* The for loop of member.
memberLoop(ts, i, res) ==
    With(access(ts, i, res), LAMBDA r :
    IF ~r.ok THEN [pos |-> r.pos, val |-> r.val, err |-> r.err]
    ELSE memberLoop(ts, r.pos, r.val))

member(ts, i) ==
    Then(primary(ts, i), LAMBDA res : memberLoop(ts, res.pos, res.val))

entityOrExtFun(ts, i, ident) ==
    IF ident \in {"ip", "decimal"}
    THEN Then(exact(ts, i, "("), LAMBDA e1 :
         LET t == advance(ts, e1.pos) IN
         IF ~isString(t.t)
         THEN ErrR(t.pos, errorf(ts, t.pos, "expected string"))
         ELSE ThenVal(stringValue(t.t), t.pos, LAMBDA str :
              Then(exact(ts, t.pos, ")"), LAMBDA e2 :
              IF ident = "ip"
              THEN ThenVal(ParsePrefix(str), e2.pos, LAMBDA ipaddr :
                   OkR(e2.pos, IPAddr(ipaddr)))
              ELSE ThenVal(ParseFloat(str), e2.pos, LAMBDA dec :
                   OkR(e2.pos, Decimal(dec))))))
    ELSE Then(entityFirstPathPreread(ts, i, ident), LAMBDA r :
         OkR(r.pos, Entity(r.val)))

\* The words primary knows before it looks at the token's type.
PrimaryWords ==
    {"true", "false", "principal", "action", "resource", "context"}

primary(ts, i) ==
    LET a == advance(ts, i).pos
        t == peek(ts, i)
    IN  CASE isInt(t) ->
               ThenVal(intValue(t), a, LAMBDA n : OkR(a, Long(n)))
          [] isString(t) ->
               ThenVal(stringValue(t), a, LAMBDA str : OkR(a, String(str)))
          [] ~isInt(t) /\ ~isString(t) /\ t.Text \in PrimaryWords ->
               OkR(a, CASE t.Text = "true" -> True
                        [] t.Text = "false" -> False
                        [] t.Text = "principal" -> Principal
                        [] t.Text = "action" -> Action
                        [] t.Text = "resource" -> Resource
                        [] t.Text = "context" -> Context)
          [] isIdent(t) /\ t.Text \notin PrimaryWords ->
               entityOrExtFun(ts, a, t.Text)
          [] t.Type \notin {"int", "string", "ident"} /\ t.Text \in {"(", "["}
             /\ a = i ->
               ErrR(i, Hang(ts, i))
          [] t.Type \notin {"int", "string", "ident"} /\ t.Text = "(" ->
               Then(expression(ts, a), LAMBDA expr :
               Then(exact(ts, expr.pos, ")"), LAMBDA e :
               OkR(e.pos, expr.val)))
          [] t.Type \notin {"int", "string", "ident"} /\ t.Text = "[" ->
               Then(expressions(ts, a, "]"), LAMBDA set :
               OkR(advance(ts, set.pos).pos, SetNodes(set.val)))
          [] t.Type \notin {"int", "string", "ident"} /\ t.Text = "{" ->
               record(ts, a)
          [] OTHER -> ErrR(a, errorf(ts, a, "invalid primary"))

\* The for loop of expressions.
expressionsLoop(ts, i, endOfListMarker, res) ==
    IF peek(ts, i).Text = endOfListMarker THEN OkR(i, res) ELSE
    Then(IF Len(res) > 0 THEN exact(ts, i, ",") ELSE OkR(i, Nil), LAMBDA c :
    Then(expression(ts, c.pos), LAMBDA e :
    expressionsLoop(ts, e.pos, endOfListMarker, Append(res, e.val))))

expressions(ts, i, endOfListMarker) ==
    expressionsLoop(ts, i, endOfListMarker, <<>>)

\* recordLoop, were a repeated key to overwrite the entry instead of failing.
recordLoopOverwrite(ts, i, entries) ==
    IF peek(ts, i).Text = "}"
    THEN OkR(advance(ts, i).pos, RecordNodes(entries)) ELSE
    Then(IF DOMAIN entries # {} THEN exact(ts, i, ",") ELSE OkR(i, Nil),
         LAMBDA c :
    Then(recordEntry(ts, c.pos), LAMBDA kv :
    recordLoop(ts, kv.pos, (kv.val[1] :> kv.val[2]) @@ entries)))

\* The for loop of record; entries is the map built so far.
recordLoop(ts, i, entries) ==
    IF peek(ts, i).Text = "}"
    THEN OkR(advance(ts, i).pos, RecordNodes(entries)) ELSE
    Then(IF DOMAIN entries # {} THEN exact(ts, i, ",") ELSE OkR(i, Nil),
         LAMBDA c :
    Then(recordEntry(ts, c.pos), LAMBDA kv :
    IF kv.val[1] \in DOMAIN entries
    THEN ErrR(kv.pos, errorf(ts, kv.pos, "duplicate key: " \o kv.val[1]))
    ELSE recordLoop(ts, kv.pos, (kv.val[1] :> kv.val[2]) @@ entries)))

record(ts, i) == recordLoop(ts, i, <<>>)

recordEntry(ts, i) ==
    LET t == advance(ts, i) IN
    ThenVal(IF isIdent(t.t) THEN [val |-> t.t.Text, err |-> NoErr]
            ELSE IF isString(t.t) THEN stringValue(t.t)
            ELSE [val |-> "", err |-> errorf(ts, t.pos, "unexpected token")],
            t.pos, LAMBDA key :
    Then(exact(ts, t.pos, ":"), LAMBDA e :
    Then(expression(ts, e.pos), LAMBDA value :
    OkR(value.pos, <<key, value.val>>))))

\* The method call of access, the cursor j being on the "(".
methodCall(ts, j, lhs, methodName) ==
    With(expressions(ts, advance(ts, j).pos, ")"), LAMBDA exprs :
        IF Failed(exprs) THEN AccR(exprs.pos, Nil, FALSE, exprs.err) ELSE
        LET after == advance(ts, exprs.pos).pos IN
        IF methodName \in KnownMethods
        THEN IF Len(exprs.val) # 1
             THEN AccR(after, Nil, FALSE, errorf(ts, after,
                      methodName \o " expects one argument"))
             ELSE AccR(after, MethodNode(methodName, lhs, exprs.val[1]),
                      TRUE, NoErr)
        ELSE AccR(after, newExtMethodCallNode(lhs, methodName, exprs.val),
                 TRUE, NoErr))

access(ts, i, lhs) ==
    LET t  == peek(ts, i)
        t2 == advance(ts, advance(ts, i).pos)
    IN  IF t.Text = "."
        THEN IF ~isIdent(t2.t)
             THEN AccR(t2.pos, Nil, FALSE, errorf(ts, t2.pos, "unexpected token"))
             ELSE IF peek(ts, t2.pos).Text = "("
             THEN methodCall(ts, t2.pos, lhs, t2.t.Text)
             ELSE AccR(t2.pos, Access(lhs, t2.t.Text), TRUE, NoErr)
        ELSE IF t.Text = "["
        THEN IF ~isString(t2.t)
             THEN AccR(t2.pos, Nil, FALSE, errorf(ts, t2.pos, "unexpected token"))
             ELSE With(ThenVal(stringValue(t2.t), t2.pos, LAMBDA name :
                       Then(exact(ts, t2.pos, "]"), LAMBDA e :
                       OkR(e.pos, Access(lhs, name)))),
                       LAMBDA r : AccR(r.pos, r.val, ~Failed(r), r.err))
        ELSE AccR(i, lhs, FALSE, NoErr)

----------------------------------------------------------------------------
(* Parser: conditions and the policy *)

condition(ts, i) ==
    Then(exact(ts, i, "{"), LAMBDA e1 :
    Then(expression(ts, e1.pos), LAMBDA res :
    Then(exact(ts, res.pos, "}"), LAMBDA e2 :
    OkR(e2.pos, res.val))))

RECURSIVE conditions(_, _, _)
conditions(ts, i, policy) ==
    LET sw == peek(ts, i).Text IN
    IF sw \in {"when", "unless"}
    THEN Then(condition(ts, advance(ts, i).pos), LAMBDA expr :
         conditions(ts, expr.pos,
             [policy EXCEPT !.Conditions = Append(@, <<sw, expr.val>>)]))
    ELSE OkR(i, policy)

policyFromCedar(ts, i) ==
    Then(annotations(ts, i), LAMBDA annots :
    Then(effect(ts, annots.pos, annots.val), LAMBDA policy :
    Then(exact(ts, policy.pos, "("), LAMBDA e1 :
    Then(principal(ts, e1.pos, policy.val), LAMBDA p1 :
    Then(exact(ts, p1.pos, ","), LAMBDA e2 :
    Then(action(ts, e2.pos, p1.val), LAMBDA p2 :
    Then(exact(ts, p2.pos, ","), LAMBDA e3 :
    Then(resource(ts, e3.pos, p2.val), LAMBDA p3 :
    Then(exact(ts, p3.pos, ")"), LAMBDA e4 :
    Then(conditions(ts, e4.pos, p3.val), LAMBDA p4 :
    Then(exact(ts, p4.pos, ";"), LAMBDA e5 :
    OkR(e5.pos, p4.val))))))))))))

newParser(ts) == [tokens |-> ts, pos |-> 0]

----------------------------------------------------------------------------
(* Spec: the authorizer *)

NoDiag == [Reasons |-> <<>>, Errors |-> <<>>]
NoParse == [ok |-> FALSE, policy |-> Nil, pos |-> 0, err |-> NoErr]

Init ==
    /\ pc = "new"
    /\ document \in Documents
    /\ policies = <<>>
    /\ nperr = ""
    /\ loc = InitLocals
    /\ decision = Deny
    /\ diag = NoDiag
    /\ tokens = <<>>
    /\ parsed = NoParse
    /\ slices = <<>>
    /\ sets = <<>>
    /\ wire = ""
    /\ decoded = Deny
    /\ frame = NoFrame
    /\ cursor = NoCursor

NewPolicySet ==
    /\ pc = "new"
    /\ \E fileName \in FileNames :
         LET r == NewPolicySetOf(fileName, document) IN
         /\ policies' = r.policies
         /\ nperr' = r.err
    /\ pc' = "ready"
    /\ UNCHANGED <<document, loc, decision, diag, tokens, parsed,
                 slices, sets, wire, decoded, frame,
                 cursor>>

IsAuthorizedEnter ==
    /\ pc = "ready"
    /\ loc' = InitLocals
    /\ pc' = "loop"
    /\ UNCHANGED <<document, policies, nperr, decision, diag, tokens, parsed,
                 slices, sets, wire, decoded, frame,
                 cursor>>

IsAuthorizedLoop ==
    /\ pc = "loop"
    /\ loc.n < Len(policies)
    /\ loc' = LoopBody(loc, policies[loc.n + 1])
    /\ UNCHANGED <<pc, document, policies, nperr, decision, diag, tokens, parsed,
                 slices, sets, wire, decoded, frame,
                 cursor>>

IsAuthorizedReturn ==
    /\ pc = "loop"
    /\ loc.n >= Len(policies)
    /\ decision' = Conclude(loc).Decision
    /\ diag' = Conclude(loc).Diagnostic
    /\ pc' = "done"
    /\ UNCHANGED <<document, policies, nperr, loc, tokens, parsed,
                 slices, sets, wire, decoded, frame,
                 cursor>>

\* Decision.String
DecisionString(a) == IF a THEN "allow" ELSE "deny"

\* Decision.MarshalJSON: the string between double quotes.
MarshalJSON(a) == "\"" \o DecisionString(a) \o "\""

\* UnmarshalJSON, were it to compare with the word without its quotes.
UnmarshalJSONBare(b) == b = "allow"

\* Decision.UnmarshalJSON: the Decision *a is set to.
UnmarshalJSON(b) == b = "\"allow\""

\* The caller serializes the decision it got ...
DecisionMarshal ==
    /\ pc = "done"
    /\ wire' = MarshalJSON(decision)
    /\ pc' = "marshalled"
    /\ UNCHANGED <<document, policies, nperr, loc, decision, diag, tokens,
                   parsed, slices, sets, decoded, frame,
                   cursor>>

\* ... and reads it back.
DecisionUnmarshal ==
    /\ pc = "marshalled"
    /\ decoded' = UnmarshalJSON(wire)
    /\ pc' = "unmarshalled"
    /\ UNCHANGED <<document, policies, nperr, loc, decision, diag, tokens,
                   parsed, slices, sets, wire, frame,
                   cursor>>

Next ==
    \/ NewPolicySet
    \/ IsAuthorizedEnter
    \/ IsAuthorizedLoop
    \/ IsAuthorizedReturn
    \/ DecisionMarshal
    \/ DecisionUnmarshal

Spec == Init /\ [][Next]_vars

----------------------------------------------------------------------------
(* ParseSpec: policyFromCedar on bounded token slices *)

\* permit ( principal , action , resource ) when {  ...  } ; EOF
PolicyHead ==
    <<TokIdent("permit"), TokOp("("), TokIdent("principal"), TokOp(","),
      TokIdent("action"), TokOp(","), TokIdent("resource"), TokOp(")"),
      TokIdent("when"), TokOp("{")>>
PolicyTail == <<TokOp("}"), TokOp(";"), TokEOF>>
WhenPolicy(expr) == PolicyHead \o expr \o PolicyTail

\* The tokens of the condition of a slice built by WhenPolicy.
ExprOf(ts) == SubSeq(ts, Len(PolicyHead) + 1, Len(ts) - Len(PolicyTail))

\* Infix chains: operand (operator operand)*, up to MaxOperands operands.
ChainOperands == {TokIdent("true"), TokInt("2")}
ChainOps == {TokOp("||"), TokOp("&&"), TokOp("=="),
             TokOp("+"), TokOp("-"), TokOp("*")}

RECURSIVE ChainsOf(_)
ChainsOf(n) ==
    IF n <= 1 THEN {<<o>> : o \in ChainOperands}
    ELSE {c \o <<op, o>> : c \in ChainsOf(n - 1), op \in ChainOps,
                           o \in ChainOperands}

Chains == UNION {ChainsOf(n) : n \in 1..MaxOperands}

\* Unary prefixes of ! and - (up to MaxUnary of them) before an operand,
\* alone or as the left operand of a product.
RECURSIVE PrefixesOf(_)
PrefixesOf(n) ==
    IF n <= 0 THEN {<<>>}
    ELSE {q \o <<op>> : q \in PrefixesOf(n - 1), op \in {TokOp("!"), TokOp("-")}}

Prefixes == UNION {PrefixesOf(n) : n \in 0..MaxUnary}

UnaryOperands ==
    {<<TokInt("1")>>, <<TokIdent("context")>>,
     <<TokIdent("context"), TokOp("."), TokIdent("num")>>,
     <<TokOp("("), TokInt("2"), TokOp("+"), TokInt("3"), TokOp(")")>>}

UnarySuffixes == {<<>>, <<TokOp("*"), TokInt("3")>>}

Unaries == {q \o o \o x : q \in Prefixes, o \in UnaryOperands,
                          x \in UnarySuffixes}

\* <expr> like <token>
LikeLhs == {<<TokIdent("principal"), TokOp("."), TokIdent("firstName")>>,
            <<TokIdent("context")>>}
LikeRhs == {TokString("\"johnny\""), TokString("\"joh\\*nny\""),
            TokString("\"*\""), TokInt("42"), TokIdent("pattern"),
            TokOp("}")}
Likes == {l \o <<TokIdent("like"), r>> : l \in LikeLhs, r \in LikeRhs}

\* Conditions taken from the parser's test table.
Examples ==
    {<<TokIdent("true"), TokOp("&&"), TokIdent("false"), TokOp("||"),
       TokIdent("true"), TokOp("&&"), TokIdent("true")>>,
     <<TokInt("2"), TokOp("+"), TokInt("3"), TokOp("*"), TokInt("4"),
       TokOp("=="), TokInt("14")>>,
     <<TokInt("2"), TokOp("*"), TokInt("3"), TokOp("+"), TokInt("4"),
       TokOp("=="), TokInt("10")>>,
     <<TokOp("("), TokInt("2"), TokOp("+"), TokInt("3"), TokOp("+"),
       TokInt("4"), TokOp(")"), TokOp("*"), TokInt("5"), TokOp("=="),
       TokInt("18")>>,
     <<TokIdent("true"), TokOp("||"), TokIdent("false"), TokOp("||"),
       TokIdent("true")>>,
     <<TokIdent("true"), TokOp("&&"), TokIdent("false"), TokOp("&&"),
       TokIdent("true")>>,
     <<TokInt("42"), TokOp("-"), TokInt("2"), TokOp("+"), TokInt("1")>>,
     <<TokInt("42"), TokOp("-"), TokInt("2"), TokOp("-"), TokInt("1")>>,
     <<TokInt("42"), TokOp("+"), TokInt("2"), TokOp("+"), TokInt("1")>>,
     <<TokInt("42"), TokOp("*"), TokInt("2"), TokOp("*"), TokInt("1")>>,
     <<TokOp("-"), TokInt("2"), TokOp("*"), TokInt("3"), TokOp("=="),
       TokOp("-"), TokInt("6")>>,
     <<TokOp("("), TokIdent("if"), TokIdent("true"), TokIdent("then"),
       TokInt("2"), TokIdent("else"), TokInt("3"), TokOp("*"), TokInt("4"),
       TokOp(")"), TokOp("=="), TokInt("2")>>}

\* The bracketed condition among the precedence examples of the
\* specification.
SpecExamples ==
    {<<TokOp("("), TokInt("2"), TokOp("+"), TokInt("3"), TokOp(")"),
       TokOp("*"), TokInt("4")>>}

\* name ( args ) at primary position.
FunctionNames == {"ip", "decimal", "not_an_extension_fn", "foo", "isIpv4",
                  "isInRange", "lessThan", "contains"}
CallArgs == {<<>>, <<TokString("\"10.0.0.0/8\"")>>, <<TokString("\"12.34\"")>>,
             <<TokInt("1")>>}
FunctionCalls ==
    {<<TokIdent(n), TokOp("(")>> \o a \o <<TokOp(")")>> :
        n \in FunctionNames, a \in CallArgs}

\* context . name ( args ) in member position.
MethodNames == {"contains", "containsAll", "containsAny", "isIpv4",
                "isInRange", "lessThan", "ip", "decimal",
                "not_an_extension_method", "xyz"}
MethodCalls ==
    {<<TokIdent("context"), TokOp("."), TokIdent(n), TokOp("(")>> \o a
        \o <<TokOp(")")>> : n \in MethodNames, a \in CallArgs}

\* Record literals { key : value , ... } of up to MaxEntries entries, the
\* keys written as identifiers or as string literals.
RecordKeys == {TokIdent("k"), TokIdent("j"), TokString("\"k\"")}
RecordValues == {TokInt("42"), TokInt("43")}

RECURSIVE RecordBodiesOf(_)
RecordBodiesOf(n) ==
    IF n <= 0 THEN {<<>>}
    ELSE {(IF b = <<>> THEN b ELSE b \o <<TokOp(",")>>)
              \o <<k, TokOp(":"), v>> :
          b \in RecordBodiesOf(n - 1), k \in RecordKeys, v \in RecordValues}

Records ==
    {<<TokOp("{")>> \o b \o <<TokOp("}")>> :
        b \in UNION {RecordBodiesOf(n) : n \in 0..MaxEntries}}

\* Literals whose value the token refuses: an integer past 64 bits, a
\* string with a bad escape.
BadLiterals == {<<TokInt("9223372036854775808")>>, <<TokString("\"\\q\"")>>}

\* ip("...") and decimal("...") on prefixes, bare addresses and other text.
ExtStrings == {TokString("\"1.2.3.4\""), TokString("\"10.0.0.0/8\""),
               TokString("\"::1\""), TokString("\"::1/128\""),
               TokString("\"12.34\""), TokString("\"nope\"")}
ExtCalls ==
    {<<TokIdent(f), TokOp("("), str, TokOp(")")>> :
        f \in {"ip", "decimal"}, str \in ExtStrings}

ParseInputs ==
    {WhenPolicy(e) : e \in Chains \cup Unaries \cup Likes \cup Examples
                          \cup SpecExamples
                          \cup FunctionCalls \cup MethodCalls \cup Records
                          \cup BadLiterals \cup ExtCalls}

ParseInit ==
    /\ pc = "lexed"
    /\ tokens \in ParseInputs
    /\ parsed = NoParse
    /\ document = [res |-> <<>>, err |-> ""]
    /\ policies = <<>>
    /\ nperr = ""
    /\ loc = InitLocals
    /\ decision = Deny
    /\ diag = NoDiag
    /\ slices = <<>>
    /\ sets = <<>>
    /\ wire = ""
    /\ decoded = Deny
    /\ frame = NoFrame
    /\ cursor = NoCursor

\* Policy.UnmarshalCedar past the lexer: newParser, then policyFromCedar.
ParsePolicy ==
    /\ pc = "lexed"
    /\ LET p == newParser(tokens)
           r == policyFromCedar(p.tokens, p.pos)
       IN  parsed' = [ok |-> ~Failed(r),
                      policy |-> IF Failed(r) THEN Nil ELSE r.val,
                      pos |-> r.pos,
                      err |-> r.err]
    /\ pc' = IF policyFromCedar(tokens, 0).err.kind = "hang"
             THEN "parsing" ELSE "parsed"
    /\ UNCHANGED <<document, policies, nperr, loc, decision, diag, tokens,
                 slices, sets, wire, decoded, frame,
                 cursor>>

ParseNext == ParsePolicy

ParseSpec == ParseInit /\ [][ParseNext]_vars

----------------------------------------------------------------------------
(* ScopeSpec: policyFromCedar on policies that differ in their scope *)

\* Entity UIDs and entity types as token runs, with the values they denote.
UidTokens1 == <<TokIdent("User"), TokOp("::"), TokString("\"foo\"")>>
UidTokens2 == <<TokIdent("NS"), TokOp("::"), TokIdent("User"), TokOp("::"),
                TokString("\"bar\"")>>
Uid1 == [Type |-> "User", ID |-> "foo"]
Uid2 == [Type |-> "NS::User", ID |-> "bar"]
TypeTokens1 == <<TokIdent("User")>>
TypeTokens2 == <<TokIdent("NS"), TokOp("::"), TokIdent("User")>>
NotAUid == <<TokIdent("error")>>

\* What may follow principal or resource: the tokens and the constraint
\* they ask for (<<"error">> when the grammar has no such form).
Form(toks, want) == [toks |-> toks, want |-> want]

VariableForms ==
    {Form(<<>>, <<"All">>),
     Form(<<TokOp("==")>> \o UidTokens1, <<"Eq", Uid1>>),
     Form(<<TokOp("==")>> \o UidTokens2, <<"Eq", Uid2>>),
     Form(<<TokIdent("in")>> \o UidTokens1, <<"In", Uid1>>),
     Form(<<TokIdent("in")>> \o UidTokens2, <<"In", Uid2>>),
     Form(<<TokIdent("is")>> \o TypeTokens1, <<"Is", "User">>),
     Form(<<TokIdent("is")>> \o TypeTokens2, <<"Is", "NS::User">>),
     Form(<<TokIdent("is")>> \o TypeTokens1 \o <<TokIdent("in")>>
              \o UidTokens2, <<"IsIn", "User", Uid2>>),
     Form(<<TokIdent("is")>> \o TypeTokens2 \o <<TokIdent("in")>>
              \o UidTokens1, <<"IsIn", "NS::User", Uid1>>),
     Form(<<TokOp("==")>> \o NotAUid, <<"error">>),
     Form(<<TokIdent("in")>> \o NotAUid, <<"error">>),
     Form(<<TokIdent("is"), TokString("\"foo\"")>>, <<"error">>),
     Form(<<TokIdent("is")>> \o TypeTokens1 \o <<TokIdent("in")>>
              \o NotAUid, <<"error">>),
     Form(<<TokOp("!=")>> \o UidTokens1, <<"error">>),
     Form(<<TokIdent("in"), TokOp("[")>> \o UidTokens1 \o <<TokOp("]")>>,
          <<"error">>)}

\* What may follow action.
ActionForms ==
    {Form(<<>>, <<"All">>),
     Form(<<TokOp("==")>> \o UidTokens1, <<"Eq", Uid1>>),
     Form(<<TokIdent("in")>> \o UidTokens2, <<"In", Uid2>>),
     Form(<<TokIdent("in"), TokOp("["), TokOp("]")>>, <<"InSet", <<>>>>),
     Form(<<TokIdent("in"), TokOp("[")>> \o UidTokens1 \o <<TokOp("]")>>,
          <<"InSet", <<Uid1>>>>),
     Form(<<TokIdent("in"), TokOp("[")>> \o UidTokens1 \o <<TokOp(",")>>
              \o UidTokens2 \o <<TokOp("]")>>, <<"InSet", <<Uid1, Uid2>>>>),
     Form(<<TokIdent("is")>> \o TypeTokens1, <<"error">>),
     Form(<<TokIdent("is")>> \o TypeTokens1 \o <<TokIdent("in")>>
              \o UidTokens1, <<"error">>),
     Form(<<TokOp("==")>> \o NotAUid, <<"error">>),
     Form(<<TokIdent("in")>> \o NotAUid, <<"error">>),
     Form(<<TokIdent("in"), TokOp("[")>> \o UidTokens1 \o UidTokens2
              \o <<TokOp("]")>>, <<"error">>)}

\* permit ( principal ... , action ... , resource ... ) ; EOF
ScopePolicy(pr, ac, re) ==
    <<TokIdent("permit"), TokOp("("), TokIdent("principal")>> \o pr
        \o <<TokOp(","), TokIdent("action")>> \o ac
        \o <<TokOp(","), TokIdent("resource")>> \o re
        \o <<TokOp(")"), TokOp(";"), TokEOF>>

ScopeInputs ==
    {ScopePolicy(pr.toks, ac.toks, re.toks) :
        pr \in VariableForms, ac \in ActionForms, re \in VariableForms}

ScopeInit ==
    /\ pc = "lexed"
    /\ tokens \in ScopeInputs
    /\ parsed = NoParse
    /\ document = [res |-> <<>>, err |-> ""]
    /\ policies = <<>>
    /\ nperr = ""
    /\ loc = InitLocals
    /\ decision = Deny
    /\ diag = NoDiag
    /\ slices = <<>>
    /\ sets = <<>>
    /\ wire = ""
    /\ decoded = Deny
    /\ frame = NoFrame
    /\ cursor = NoCursor

ScopeSpec == ScopeInit /\ [][ParseNext]_vars

----------------------------------------------------------------------------
(* SetSpec: types.NewSet and Set.Equal on bounded slices of values *)

\* A Value is <<"Long", n>> or <<"Set", elements>>, the elements of a Set
\* being kept as a sequence in the order NewSet met them.
LongValue(n) == <<"Long", n>>
IsSet(v) == v[1] = "Set"

RECURSIVE ValueEqual(_, _)

\* Set.Contains: some element of the set is Equal to v.
Contains(set, v) == \E k \in 1..Len(set[2]) : ValueEqual(set[2][k], v)

\* Set.Equal: each set contains every element of the other.
SetEqual(a, b) ==
    /\ \A k \in 1..Len(a[2]) : Contains(b, a[2][k])
    /\ \A k \in 1..Len(b[2]) : Contains(a, b[2][k])

\* Value.Equal
ValueEqual(a, b) ==
    IF IsSet(a) /\ IsSet(b) THEN SetEqual(a, b)
    ELSE a[1] = b[1] /\ a[2] = b[2]

\* NewSet, were it to keep every element of the slice.
NewSetKeepAll(values) == <<"Set", values>>

\* The loop of NewSet: the elements kept so far, then values[k..].
RECURSIVE NewSetFrom(_, _, _)
NewSetFrom(values, k, kept) ==
    IF k > Len(values) THEN kept
    ELSE NewSetFrom(values, k + 1,
             IF Contains(<<"Set", kept>>, values[k]) THEN kept
             ELSE Append(kept, values[k]))

\* types.NewSet: a copy of the slice without the elements Equal to an
\* earlier one.
NewSet(values) == <<"Set", NewSetFrom(values, 1, <<>>)>>

\* Set.Len
SetLen(set) == Len(set[2])

\* The values slices are made of: a Long and two Sets of the same elements
\* built in different orders.
SliceValues ==
    {LongValue(1), NewSet(<<LongValue(1), LongValue(2)>>),
     NewSet(<<LongValue(2), LongValue(1), LongValue(2)>>)}

RECURSIVE SlicesOf(_)
SlicesOf(n) ==
    IF n <= 0 THEN {<<>>}
    ELSE {Append(x, v) : x \in SlicesOf(n - 1), v \in SliceValues}

Slices == UNION {SlicesOf(n) : n \in 0..MaxSlice}

SetInit ==
    /\ pc = "values"
    /\ slices \in Slices \X Slices
    /\ sets = <<>>
    /\ tokens = <<>>
    /\ parsed = NoParse
    /\ document = [res |-> <<>>, err |-> ""]
    /\ policies = <<>>
    /\ nperr = ""
    /\ loc = InitLocals
    /\ decision = Deny
    /\ diag = NoDiag
    /\ wire = ""
    /\ decoded = Deny
    /\ frame = NoFrame
    /\ cursor = NoCursor

NewSets ==
    /\ pc = "values"
    /\ sets' = <<NewSet(slices[1]), NewSet(slices[2])>>
    /\ pc' = "sets"
    /\ UNCHANGED <<document, policies, nperr, loc, decision, diag, tokens,
                   parsed, slices, wire, decoded, frame,
                   cursor>>

SetNext == NewSets

SetSpec == SetInit /\ [][SetNext]_vars

----------------------------------------------------------------------------
(* PrefixSpec: policyFromCedar on token slices that stop anywhere *)

\* Policies that use every construct of the grammar.
FullPolicies ==
    {<<TokOp("@"), TokIdent("id"), TokOp("("), TokString("\"foo\""),
       TokOp(")"), TokIdent("permit"), TokOp("("),
       TokIdent("principal"), TokIdent("is"), TokIdent("NS"), TokOp("::"),
       TokIdent("User"), TokIdent("in")>> \o UidTokens1 \o
     <<TokOp(","), TokIdent("action"), TokIdent("in"), TokOp("[")>>
       \o UidTokens1 \o <<TokOp(",")>> \o UidTokens2 \o
     <<TokOp("]"), TokOp(","), TokIdent("resource"), TokOp("==")>>
       \o UidTokens2 \o
     <<TokOp(")"), TokIdent("when"), TokOp("{"),
       TokOp("!"), TokOp("-"), TokOp("("), TokInt("2"), TokOp("+"),
       TokInt("3"), TokOp(")"), TokOp("*"), TokInt("4"), TokOp("=="),
       TokInt("2"), TokOp("&&"), TokIdent("context"), TokOp("."),
       TokIdent("strings"), TokOp("."), TokIdent("contains"), TokOp("("),
       TokString("\"foo\""), TokOp(")"), TokOp("}"),
       TokIdent("unless"), TokOp("{"),
       TokIdent("if"), TokIdent("true"), TokIdent("then"), TokOp("["),
       TokInt("1"), TokOp(","), TokOp("-"), TokInt("2"), TokOp("]"),
       TokIdent("else"), TokOp("{"), TokIdent("j"), TokOp(":"),
       TokInt("42"), TokOp(","), TokString("\"k\""), TokOp(":"),
       TokOp("!"), TokIdent("false"), TokOp("}"), TokOp("."),
       TokIdent("k"), TokOp("}"), TokOp(";"), TokEOF>>,
     <<TokIdent("forbid"), TokOp("("), TokIdent("principal"), TokOp(","),
       TokIdent("action"), TokOp("==")>> \o UidTokens1 \o
     <<TokOp(","), TokIdent("resource"), TokIdent("in")>> \o UidTokens1 \o
     <<TokOp(")"), TokIdent("when"), TokOp("{"),
       TokIdent("ip"), TokOp("("), TokString("\"10.0.0.0/8\""), TokOp(")"),
       TokOp("."), TokIdent("isInRange"), TokOp("("), TokIdent("ip"),
       TokOp("("), TokString("\"::1/128\""), TokOp(")"), TokOp(")"),
       TokOp("||"), TokIdent("context"), TokOp("["), TokString("\"foo\""),
       TokOp("]"), TokIdent("has"), TokIdent("bar"), TokOp("}"),
       TokIdent("when"), TokOp("{"), TokIdent("principal"),
       TokIdent("is"), TokIdent("User"), TokIdent("in")>> \o UidTokens2 \o
     <<TokOp("-"), TokInt("1"), TokOp("}"), TokOp(";"), TokEOF>>}
    \cup {WhenPolicy(e) : e \in Examples \cup SpecExamples}

\* What the lexer gives for every text that is the beginning of one of them,
\* the empty text and the whole text included: the tokens of the beginning
\* and the "eof" token that ends every slice.
PrefixInputs ==
    UNION {{SubSeq(ts, 1, n) \o <<TokEOF>> : n \in 0..(Len(ts) - 1)} :
              ts \in FullPolicies}

PrefixInit ==
    /\ pc = "lexed"
    /\ tokens \in PrefixInputs
    /\ parsed = NoParse
    /\ document = [res |-> <<>>, err |-> ""]
    /\ policies = <<>>
    /\ nperr = ""
    /\ loc = InitLocals
    /\ decision = Deny
    /\ diag = NoDiag
    /\ slices = <<>>
    /\ sets = <<>>
    /\ wire = ""
    /\ decoded = Deny
    /\ frame = NoFrame
    /\ cursor = NoCursor

PrefixSpec == PrefixInit /\ [][ParseNext]_vars

----------------------------------------------------------------------------
(* JsonSpec: unmarshalJSON on bounded JSON texts *)

\* The bytes b are kept as the sequence of the lexemes of the JSON text, so
\* that b[1] is what the first byte b[0] belongs to.
JsonEntity == <<"{", "\"__entity\"", ":", "{", "\"type\"", ":", "\"User\"", ",",
                "\"id\"", ":", "\"alice\"", "}", "}">>
JsonEntityImplicit == <<"{", "\"type\"", ":", "\"User\"", ",", "\"id\"", ":",
                        "\"alice\"", "}">>
JsonExtn(fn, arg) == <<"{", "\"__extn\"", ":", "{", "\"fn\"", ":", fn, ",",
                       "\"arg\"", ":", arg, "}", "}">>
JsonTexts ==
    {JsonEntity, JsonEntityImplicit,
     JsonExtn("\"ip\"", "\"1.2.3.4\""), JsonExtn("\"ip\"", "\"nope\""),
     JsonExtn("\"decimal\"", "\"12.34\""), JsonExtn("\"decimal\"", "\"nope\""),
     JsonExtn("\"foo\"", "\"12.34\""),
     <<"[", "]">>, <<"[", "1", ",", "2", "]">>, <<"[", "1", ",">>,
     <<"[", "1", ",", "null", "]">>, <<"[", "1", ",", "1.5", "]">>,
     <<"{", "}">>, <<"{", "\"a\"", ":", "1", "}">>, <<"{", "\"a\"", ":">>,
     <<"{", "\"a\"", ":", "1", ",", "\"b\"", ":", "null", "}">>,
     <<"\"str\"">>, <<"true">>, <<"false">>, <<"42">>,
     <<"9223372036854775808">>, <<"1.5">>, <<"null">>, <<"nope">>, <<>>}

\* The Values *v may hold when the call is made.
BooleanValue(x) == <<"Boolean", x>>
StringValue(x) == <<"String", x>>
ZeroValue == <<"nil">>
ZeroSet == <<"Set", <<>>>>
EmptyRecord == <<"Record", <<>>>>
DestinationValues == {ZeroValue, LongValue(7), StringValue("old"),
                      NewSet(<<LongValue(7)>>)}

Decoded(val) == [val |-> val, err |-> ""]
Refused(val, err) == [val |-> val, err |-> err]

\* EntityUID.UnmarshalJSON: the explicit and the implicit form of an entity.
EntityUIDUnmarshalJSON(b) ==
    IF b \in {JsonEntity, JsonEntityImplicit}
    THEN Decoded(<<"EntityUID", [Type |-> "User", ID |-> "alice"]>>)
    ELSE Refused(<<"EntityUID", [Type |-> "", ID |-> ""]>>, "error decoding json")

\* json.Unmarshal(b, &res) on an extValueJSON: the Extn it finds, Nil when
\* the object has none.
UnmarshalExtValueJSON(b) ==
    CASE b = JsonExtn("\"ip\"", "\"1.2.3.4\"") ->
             Decoded([Fn |-> "ip", Arg |-> "1.2.3.4"])
      [] b = JsonExtn("\"ip\"", "\"nope\"") ->
             Decoded([Fn |-> "ip", Arg |-> "nope"])
      [] b = JsonExtn("\"decimal\"", "\"12.34\"") ->
             Decoded([Fn |-> "decimal", Arg |-> "12.34"])
      [] b = JsonExtn("\"decimal\"", "\"nope\"") ->
             Decoded([Fn |-> "decimal", Arg |-> "nope"])
      [] b = JsonExtn("\"foo\"", "\"12.34\"") ->
             Decoded([Fn |-> "foo", Arg |-> "12.34"])
      [] b \in {JsonEntity, JsonEntityImplicit, <<"{", "}">>, <<"null">>,
                <<"{", "\"a\"", ":", "1", "}">>,
                <<"{", "\"a\"", ":", "1", ",", "\"b\"", ":", "null", "}">>} ->
             Decoded(Nil)
      [] OTHER -> Refused(Nil, "json: cannot unmarshal")

newIPValue(arg) ==
    IF arg = "1.2.3.4" THEN Decoded(<<"IPAddr", <<"1.2.3.4", 32>>>>)
    ELSE Refused(ZeroValue, "error parsing ip value")

newDecimalValue(arg) ==
    IF arg = "12.34" THEN Decoded(<<"Decimal", <<1234, 100>>>>)
    ELSE Refused(ZeroValue, "error parsing decimal value")

\* json.Unmarshal(b, &res) on a Set: on an error res is what it was, the
\* zero Set.
UnmarshalSet(b) ==
    CASE b = <<"[", "]">> -> Decoded(NewSet(<<>>))
      [] b = <<"[", "1", ",", "2", "]">> ->
             Decoded(NewSet(<<LongValue(1), LongValue(2)>>))
      [] b = <<"[", "1", ",", "null", "]">> ->
             Refused(ZeroSet, "unsupported type")
      [] b = <<"[", "1", ",", "1.5", "]">> ->
             Refused(ZeroSet, "long out of range")
      [] OTHER -> Refused(ZeroSet, "unexpected end of JSON input")

\* json.Unmarshal(b, &res) on the Record{} made for it.
UnmarshalRecord(b) ==
    CASE b = <<"{", "}">> -> Decoded(EmptyRecord)
      [] b = <<"{", "\"a\"", ":", "1", "}">> ->
             Decoded(<<"Record", <<<<"a", LongValue(1)>>>>>>)
      [] b = <<"{", "\"a\"", ":", "1", ",", "\"b\"", ":", "null", "}">> ->
             Refused(EmptyRecord, "unsupported type")
      [] OTHER -> Refused(EmptyRecord, "unexpected end of JSON input")

\* dec.Decode(&res) with UseNumber: a string, a bool, a json.Number or nil.
Decode(b) ==
    CASE b = <<"\"str\"">> -> Decoded(<<"string", "str">>)
      [] b = <<"true">>    -> Decoded(<<"bool", TRUE>>)
      [] b = <<"false">>   -> Decoded(<<"bool", FALSE>>)
      [] b \in {<<"42">>, <<"9223372036854775808">>, <<"1.5">>} ->
             Decoded(<<"json.Number", b[1]>>)
      [] b = <<"null">>    -> Decoded(<<"nil">>)
      [] OTHER -> Refused(<<"nil">>, "invalid character")

\* json.Number.Int64
Int64(n) ==
    IF n = "42" THEN Decoded(42)
    ELSE Refused(0, "strconv.ParseInt: value out of range or invalid syntax")

errJSONInvalidExtn == "invalid extension"
errJSONDecode == "error decoding json"
errJSONLongOutOfRange == "long out of range"
errJSONUnsupportedType == "unsupported type"

\* unmarshalJSON(b, v): the Value *v holds when it returns, and its error.
Returns(v, err) == [v |-> v, err |-> err]

unmarshalJSONTail(b, v) ==
    LET res == Decode(b) IN
    IF res.err # "" THEN Returns(v, errJSONDecode \o ": " \o res.err)
    ELSE CASE res.val[1] = "string" -> Returns(StringValue(res.val[2]), "")
           [] res.val[1] = "bool"   -> Returns(BooleanValue(res.val[2]), "")
           [] res.val[1] = "json.Number" ->
                LET l == Int64(res.val[2]) IN
                IF l.err # ""
                THEN Returns(v, errJSONLongOutOfRange \o ": " \o l.err)
                ELSE Returns(LongValue(l.val), "")
           [] OTHER -> Returns(v, errJSONUnsupportedType)

unmarshalJSON(b, v) ==
    LET uid == EntityUIDUnmarshalJSON(b)
        ext == UnmarshalExtValueJSON(b)
    IN  IF uid.err = "" THEN Returns(uid.val, "")
        ELSE IF ext.err = "" /\ ext.val # Nil
        THEN CASE ext.val.Fn = "ip" ->
                    LET val == newIPValue(ext.val.Arg) IN
                    IF val.err # "" THEN Returns(v, val.err)
                    ELSE Returns(val.val, "")
               [] ext.val.Fn = "decimal" ->
                    LET val == newDecimalValue(ext.val.Arg) IN
                    IF val.err # "" THEN Returns(v, val.err)
                    ELSE Returns(val.val, "")
               [] OTHER -> Returns(v, errJSONInvalidExtn)
        ELSE IF Len(b) > 0 /\ b[1] = "["
        THEN Returns(UnmarshalSet(b).val, UnmarshalSet(b).err)
        ELSE IF Len(b) > 0 /\ b[1] = "{"
        THEN Returns(UnmarshalRecord(b).val, UnmarshalRecord(b).err)
        ELSE unmarshalJSONTail(b, v)

JsonInit ==
    /\ pc = "json"
    /\ frame \in {[b |-> b, v0 |-> v, v |-> v, err |-> ""] :
                    b \in JsonTexts, v \in DestinationValues}
    /\ tokens = <<>>
    /\ parsed = NoParse
    /\ document = [res |-> <<>>, err |-> ""]
    /\ policies = <<>>
    /\ nperr = ""
    /\ loc = InitLocals
    /\ decision = Deny
    /\ diag = NoDiag
    /\ slices = <<>>
    /\ sets = <<>>
    /\ wire = ""
    /\ decoded = Deny
    /\ cursor = NoCursor

UnmarshalValue ==
    /\ pc = "json"
    /\ frame' = [frame EXCEPT !.v = unmarshalJSON(frame.b, frame.v).v,
                              !.err = unmarshalJSON(frame.b, frame.v).err]
    /\ pc' = "returned"
    /\ UNCHANGED <<document, policies, nperr, loc, decision, diag, tokens,
                   parsed, slices, sets, wire, decoded,
                   cursor>>

JsonNext == UnmarshalValue

JsonSpec == JsonInit /\ [][JsonNext]_vars

----------------------------------------------------------------------------
(* CursorSpec: the cursor of a parser, one call of advance at a time *)

\* p := newParser(tokens) over a non-empty token slice, whether an "eof"
\* token ends it or not: the lexed slices and every non-empty beginning of
\* one.
CursorInit ==
    /\ pc = "cursor"
    /\ \E ts \in PrefixInputs : \E n \in 1..Len(ts) : tokens = SubSeq(ts, 1, n)
    /\ cursor = [NoCursor EXCEPT !.pos = newParser(tokens).pos]
    /\ parsed = NoParse
    /\ document = [res |-> <<>>, err |-> ""]
    /\ policies = <<>>
    /\ nperr = ""
    /\ loc = InitLocals
    /\ decision = Deny
    /\ diag = NoDiag
    /\ slices = <<>>
    /\ sets = <<>>
    /\ wire = ""
    /\ decoded = Deny
    /\ frame = NoFrame

\* t := p.advance(), the only assignment to p.pos there is.
Advance ==
    /\ pc = "cursor"
    /\ cursor' = [pos |-> advance(tokens, cursor.pos).pos,
                  from |-> cursor.pos,
                  t |-> advance(tokens, cursor.pos).t,
                  advanced |-> TRUE]
    /\ UNCHANGED <<pc, document, policies, nperr, loc, decision, diag, tokens,
                   parsed, slices, sets, wire, decoded, frame>>

CursorNext == Advance

CursorSpec == CursorInit /\ [][CursorNext]_vars

----------------------------------------------------------------------------
(* Properties of the authorizer *)

\* A policy succeeded: it evaluated without error to the boolean true.
Succeeded(po) ==
    /\ Eval(po).err = ""
    /\ ValueToBool(Eval(po).v).err = ""
    /\ ValueToBool(Eval(po).v).b

\* A policy failed: its evaluation, or the coercion of its value, errored.
Errored(po) ==
    \/ Eval(po).err # ""
    \/ ValueToBool(Eval(po).v).err # ""

Indexes(ps) == [k \in 1..Len(ps) |-> k]

\* The 0-based indices of the policies of ps of effect e that succeeded, in
\* policy order.
Fired(ps, e) ==
    LET Hit(k) == ps[k].Effect = e /\ Succeeded(ps[k])
        ks == SelectSeq(Indexes(ps), Hit)
    IN  [j \in 1..Len(ks) |-> ks[j] - 1]

FailedIdx(ps) ==
    LET Bad(k) == Errored(ps[k])
        ks == SelectSeq(Indexes(ps), Bad)
    IN  [j \in 1..Len(ks) |-> ks[j] - 1]

PolicyIdx(rs) == [j \in 1..Len(rs) |-> rs[j].Policy]

WithoutErrored(ps) ==
    LET Good(po) == ~Errored(po) IN SelectSeq(ps, Good)

\* C1: IsAuthorized returns Allow iff at least one permit policy evaluated
\* without error to true and no forbid policy did; otherwise (the empty set
\* included) it returns Deny.
C1_DecisionRule ==
    pc = "done" =>
        /\ decision \in {Allow, Deny}
        /\ (decision = Allow) <=>
              /\ \E k \in 1..Len(policies) :
                    policies[k].Effect = Permit /\ Succeeded(policies[k])
              /\ ~\E k \in 1..Len(policies) :
                    policies[k].Effect = Forbid /\ Succeeded(policies[k])
        /\ (Len(policies) = 0 => decision = Deny)

C1_Witness ==
    /\ pc = "done"
    /\ decision = Allow
    /\ \E k \in 1..Len(policies) :
          policies[k].Effect = Forbid /\ ~Succeeded(policies[k])

\* C2: Reasons is the list of the forbid policies that fired, in policy
\* order, when one did, and otherwise the list of the permit policies that
\* fired; it never mixes the two and is empty when nothing fired.
C2_Reasons ==
    pc = "done" =>
        /\ PolicyIdx(diag.Reasons) =
              IF Len(Fired(policies, Forbid)) > 0
              THEN Fired(policies, Forbid)
              ELSE Fired(policies, Permit)
        /\ \A i, j \in 1..Len(diag.Reasons) :
              policies[diag.Reasons[i].Policy + 1].Effect =
              policies[diag.Reasons[j].Policy + 1].Effect
        /\ (~\E k \in 1..Len(policies) : Succeeded(policies[k]))
              => diag.Reasons = <<>>

C2_Witness ==
    /\ pc = "done"
    /\ Len(Fired(policies, Forbid)) > 0
    /\ Len(Fired(policies, Permit)) > 0
    /\ Len(diag.Reasons) > 0

\* C3: every policy is evaluated exactly once, in index order, whatever the
\* earlier policies did, and Errors holds exactly one entry per policy whose
\* evaluation failed, in ascending index.
C3_NoShortCircuit ==
    /\ pc = "loop" => loc.evals = [k \in 1..loc.n |-> k - 1]
    /\ pc = "done" =>
          /\ loc.evals = [k \in 1..Len(policies) |-> k - 1]
          /\ PolicyIdx(diag.Errors) = FailedIdx(policies)

C3_Witness ==
    /\ pc = "done"
    /\ \E i, j, k \in 1..Len(policies) :
          /\ i < j /\ j < k
          /\ policies[i].Effect = Forbid /\ Succeeded(policies[i])
          /\ Errored(policies[j])
          /\ Errored(policies[k])
    /\ Len(diag.Errors) = 2

\* C4: a policy whose evaluation errors appears in no Reason and does not
\* influence the Decision: the Decision is that of the same set with the
\* erroring policies removed.
C4_ErrorIsLocal ==
    pc = "done" =>
        /\ \A j \in 1..Len(diag.Reasons) :
              ~Errored(policies[diag.Reasons[j].Policy + 1])
        /\ decision = IsAuthorizedOf(WithoutErrored(policies)).Decision
        /\ (\A k \in 1..Len(policies) : Errored(policies[k]))
              => decision = Deny

C4_Witness ==
    /\ pc = "done"
    /\ decision = Allow
    /\ \E k \in 1..Len(policies) :
          policies[k].Effect = Forbid /\ Errored(policies[k])

\* C5: NewPolicySet keeps the order of the parsed document (policy i at
\* index i, none dropped or duplicated), a failed parse gives a nil set and
\* an error, and every Reason and Error carries the index of its policy
\* together with that policy's Position.
C5_StableIndices ==
    /\ (pc # "new" /\ document.err = "") =>
          /\ nperr = ""
          /\ Len(policies) = Len(document.res)
          /\ \A k \in 1..Len(policies) :
                /\ policies[k].Effect = document.res[k].Effect
                /\ policies[k].ast = document.res[k].ast
                /\ policies[k].Position.Offset = document.res[k].Position.Offset
                /\ policies[k].Position.Line = document.res[k].Position.Line
                /\ policies[k].Position.Column = document.res[k].Position.Column
                /\ policies[k].Position.Filename \in FileNames
    /\ (pc # "new" /\ document.err # "") =>
          /\ policies = <<>>
          /\ nperr # ""
    /\ pc = "done" =>
          /\ \A j \in 1..Len(diag.Reasons) :
                /\ diag.Reasons[j].Policy \in 0..(Len(policies) - 1)
                /\ diag.Reasons[j].Position =
                      policies[diag.Reasons[j].Policy + 1].Position
                /\ Succeeded(policies[diag.Reasons[j].Policy + 1])
          /\ \A j \in 1..Len(diag.Errors) :
                /\ diag.Errors[j].Policy \in 0..(Len(policies) - 1)
                /\ diag.Errors[j].Position =
                      policies[diag.Errors[j].Policy + 1].Position
                /\ Errored(policies[diag.Errors[j].Policy + 1])

C5_Witness ==
    /\ pc = "done"
    /\ Len(policies) = Len(document.res)
    /\ Len(policies) >= 3
    /\ Len(diag.Reasons) >= 1
    /\ Len(diag.Errors) >= 1
    /\ policies[1].ast # policies[2].ast

----------------------------------------------------------------------------
(* Properties of the parser *)

\* The parse succeeded and gave a policy with the one condition `when node`.
ParsedOkWith(node) ==
    /\ parsed.ok
    /\ parsed.policy.Conditions = <<<<"when", node>>>>

\* The node a single operand token stands for.
Leaf(tok) ==
    CASE isInt(tok) -> Long(intValue(tok).val)
      [] ~isInt(tok) /\ tok.Text = "true" -> True
      [] ~isInt(tok) /\ tok.Text = "false" -> False
      [] ~isInt(tok) /\ tok.Text = "context" -> Context
      [] ~isInt(tok) /\ tok.Text = "principal" -> Principal
      [] OTHER -> <<"unknown", tok.Text>>

IsOperand(tok) == isInt(tok) \/ (isIdent(tok) /\ tok.Text \in {"true", "false"})

\* The node a binary operator token builds from its two operands.
BinNode(text, l, r) ==
    CASE text = "||" -> Or(l, r)
      [] text = "&&" -> And(l, r)
      [] text = "+"  -> Plus(l, r)
      [] text = "-"  -> Minus(l, r)
      [] text = "*"  -> Times(l, r)
      [] OTHER       -> RelNode(text, l, r)

\* e is operand (op operand)+ with every op in ops.
IsChain(e, ops) ==
    /\ Len(e) >= 3
    /\ Len(e) % 2 = 1
    /\ \A k \in 1..Len(e) :
          IF k % 2 = 1 THEN IsOperand(e[k])
          ELSE e[k].Type = "op" /\ e[k].Text \in ops

\* The left-associative tree of the first k tokens of a chain.
RECURSIVE LeftFold(_, _)
LeftFold(e, k) ==
    IF k <= 1 THEN Leaf(e[1])
    ELSE BinNode(e[k - 1].Text, LeftFold(e, k - 2), Leaf(e[k]))

\* C6: a chain of || (of &&) of any length >= 2 parses, left-associatively:
\* a || b || c gives Or(Or(a, b), c), a && b && c gives And(And(a, b), c).
C6_OrAndChains ==
    (pc = "parsed" /\ (\/ IsChain(ExprOf(tokens), {"||"})
                       \/ IsChain(ExprOf(tokens), {"&&"})))
        => ParsedOkWith(LeftFold(ExprOf(tokens), Len(ExprOf(tokens))))

\* C7: a chain of + and - (of *) of any length parses, left-associatively:
\* 42 - 2 + 1 gives Add(Subtract(42, 2), 1), 42 * 2 * 1 gives
\* Multiply(Multiply(42, 2), 1).
C7_AddMultChains ==
    (pc = "parsed" /\ (\/ IsChain(ExprOf(tokens), {"+", "-"})
                       \/ IsChain(ExprOf(tokens), {"*"})))
        => ParsedOkWith(LeftFold(ExprOf(tokens), Len(ExprOf(tokens))))

\* The precedence level of a node, loosest first.
Level(node) ==
    CASE node[1] = "Or" -> 1
      [] node[1] = "And" -> 2
      [] node[1] \in {"LessThan", "LessThanOrEqual", "GreaterThan",
                      "GreaterThanOrEqual", "NotEquals", "Equals", "In",
                      "Has", "Like", "Is", "IsIn"} -> 3
      [] node[1] \in {"Add", "Subtract"} -> 4
      [] node[1] = "Multiply" -> 5
      [] node[1] \in {"Not", "Negate"} -> 6
      [] node[1] \in {"Access", "Contains", "ContainsAll", "ContainsAny",
                      "ExtensionMethod"} -> 7
      [] OTHER -> 8

IsBinary(node) == Level(node) \in 1..5 /\ Len(node) = 3 /\ node[1] # "Has"
                  /\ node[1] # "Is"

BinText(node) ==
    CASE node[1] = "Or" -> "||"
      [] node[1] = "And" -> "&&"
      [] node[1] = "Add" -> "+"
      [] node[1] = "Subtract" -> "-"
      [] node[1] = "Multiply" -> "*"
      [] node[1] = "Equals" -> "=="
      [] node[1] = "NotEquals" -> "!="
      [] node[1] = "LessThan" -> "<"
      [] node[1] = "LessThanOrEqual" -> "<="
      [] node[1] = "GreaterThan" -> ">"
      [] node[1] = "GreaterThanOrEqual" -> ">="
      [] OTHER -> "in"

\* No operator of the tree has an operand that binds looser than itself, and
\* no right operand binds as loosely as its operator.
RECURSIVE WellNested(_)
WellNested(node) ==
    IF IsBinary(node)
    THEN /\ Level(node[2]) >= Level(node)
         /\ Level(node[3]) > Level(node)
         /\ WellNested(node[2])
         /\ WellNested(node[3])
    ELSE IF node[1] \in {"Not", "Negate", "Access"}
    THEN Level(node[2]) >= Level(node) /\ WellNested(node[2])
    ELSE TRUE

\* The tree read back in order: operands as nodes, operators as their text.
RECURSIVE Flatten(_)
Flatten(node) ==
    IF IsBinary(node)
    THEN Flatten(node[2]) \o <<BinText(node)>> \o Flatten(node[3])
    ELSE IF node[1] = "Not" THEN <<"!">> \o Flatten(node[2])
    ELSE IF node[1] = "Negate" THEN <<"-">> \o Flatten(node[2])
    ELSE IF node[1] = "Access" THEN Flatten(node[2]) \o <<".", node[3]>>
    ELSE <<node>>

\* The tokens of a condition, the same way.
Items(e) ==
    [k \in 1..Len(e) |->
        IF isInt(e[k]) \/ (isIdent(e[k]) /\ e[k].Text \in PrimaryWords
                           /\ (k = 1 \/ e[k - 1].Text # "."))
        THEN Leaf(e[k]) ELSE e[k].Text]

Bracketless(e) ==
    \A k \in 1..Len(e) : e[k].Text \notin {"(", "[", "{", "if"}

Ex(e) == tokens = WhenPolicy(e)

\* C8: precedence, loosest to tightest, is ||, &&, relational, + and -, *,
\* unary ! and -, member access: in the tree of a condition written without
\* brackets no operator has an operand that binds looser than itself, and the
\* tree read in order is the condition; parentheses override; the four
\* conditions of the claim parse to the trees it gives.
C8_Precedence ==
    pc = "parsed" =>
      /\ (parsed.ok /\ Bracketless(ExprOf(tokens))) =>
            /\ WellNested(parsed.policy.Conditions[1][2])
            /\ Flatten(parsed.policy.Conditions[1][2]) = Items(ExprOf(tokens))
      /\ Ex(<<TokIdent("true"), TokOp("&&"), TokIdent("false"), TokOp("||"),
              TokIdent("true"), TokOp("&&"), TokIdent("true")>>)
            => ParsedOkWith(Or(And(True, False), And(True, True)))
      /\ Ex(<<TokInt("2"), TokOp("+"), TokInt("3"), TokOp("*"), TokInt("4"),
              TokOp("=="), TokInt("14")>>)
            => ParsedOkWith(RelNode("==",
                   Plus(Long(2), Times(Long(3), Long(4))), Long(14)))
      /\ Ex(<<TokInt("2"), TokOp("*"), TokInt("3"), TokOp("+"), TokInt("4"),
              TokOp("=="), TokInt("10")>>)
            => ParsedOkWith(RelNode("==",
                   Plus(Times(Long(2), Long(3)), Long(4)), Long(10)))
      /\ Ex(<<TokOp("-"), TokIdent("context"), TokOp("."), TokIdent("num")>>)
            => ParsedOkWith(Negate(Access(Context, "num")))
      /\ Ex(<<TokOp("("), TokInt("2"), TokOp("+"), TokInt("3"), TokOp(")"),
              TokOp("*"), TokInt("4")>>)
            => ParsedOkWith(Times(Plus(Long(2), Long(3)), Long(4)))

C8_Witness ==
    /\ pc = "parsed"
    /\ parsed.ok
    /\ Ex(<<TokIdent("true"), TokOp("||"), TokInt("2"), TokOp("+"),
            TokInt("2"), TokOp("*"), TokInt("2"), TokOp("=="), TokInt("2")>>)
            \/ Ex(<<TokInt("2"), TokOp("*"), TokInt("2"), TokOp("+"),
                    TokInt("2"), TokOp("=="), TokInt("2")>>)
    /\ Level(parsed.policy.Conditions[1][2]) = 3

\* The tree of an operand of the unary family.
OperandNode(o) ==
    IF Len(o) = 1 THEN Leaf(o[1])
    ELSE IF Len(o) = 3 THEN Access(Leaf(o[1]), o[3].Text)
    ELSE Plus(Leaf(o[2]), Leaf(o[4]))

RECURSIVE Wrap(_, _, _)
Wrap(q, k, node) ==
    IF k < 1 THEN node
    ELSE Wrap(q, k - 1, IF q[k].Text = "!" THEN Not(node) ELSE Negate(node))

\* The tree the test table asks of prefix q before operand o: a minus right
\* before an integer literal makes the literal negative.
ExpectedUnary(q, o) ==
    IF Len(q) > 0 /\ q[Len(q)].Text = "-" /\ Len(o) = 1 /\ isInt(o[1])
    THEN Wrap(q, Len(q) - 1, Long(0 - intValue(o[1]).val))
    ELSE Wrap(q, Len(q), OperandNode(o))

\* C9: a unary minus right before an integer literal parses to a negative
\* Long (-1 to Long(-1), -2 * 3 to Multiply(Long(-2), Long(3)), !--1 to
\* Not(Negate(Long(-1)))); before anything else it parses to Negate.
C9_NegativeLiteral ==
    pc = "parsed" =>
        \A q \in Prefixes, o \in UnaryOperands :
            /\ Ex(q \o o) => ParsedOkWith(ExpectedUnary(q, o))
            /\ Ex(q \o o \o <<TokOp("*"), TokInt("3")>>)
                 => ParsedOkWith(Times(ExpectedUnary(q, o), Long(3)))

\* The pattern of a string literal: * is the wildcard, \* a literal asterisk.
PatternOf(tok) ==
    CASE tok.Text = "\"johnny\""    -> <<[Literal |-> "johnny"]>>
      [] tok.Text = "\"joh\\*nny\"" -> <<[Literal |-> "joh*nny"]>>
      [] tok.Text = "\"*\""         -> <<[Wildcard |-> TRUE]>>
      [] OTHER -> <<>>

\* C10: <expr> like <string literal> parses to a Like node with the pattern
\* of the literal; a right-hand side that is no string literal is an error.
C10_Like ==
    pc = "parsed" =>
        \A l \in LikeLhs, r \in LikeRhs :
            Ex(l \o <<TokIdent("like"), r>>) =>
                IF isString(r)
                THEN ParsedOkWith(<<"Like", OperandNode(l), PatternOf(r)>>)
                ELSE ~parsed.ok

\* The extension functions, and the names reserved for extension methods.
ExtFunctions == {"ip", "decimal"}
ExtMethods == {"isIpv4", "isIpv6", "isLoopback", "isMulticast", "isInRange",
               "lessThan", "lessThanOrEqual", "greaterThan",
               "greaterThanOrEqual"}

\* C11: at primary position name( is accepted only for ip and decimal; any
\* other name is the parse error "<name> is not a function", a reserved
\* method name the parse error "<name> is a method, not a function" (the
\* messages quote the name in backquotes, left out here).
C11_NotAFunction ==
    pc = "parsed" =>
        \A n \in FunctionNames, a \in CallArgs :
            (Ex(<<TokIdent(n), TokOp("(")>> \o a \o <<TokOp(")")>>)
             /\ n \notin ExtFunctions)
              => /\ ~parsed.ok
                 /\ parsed.err.kind = "parse"
                 /\ parsed.err.msg =
                        IF n \in ExtMethods
                        THEN n \o " is a method, not a function"
                        ELSE n \o " is not a function"

\* C12: in member position only contains, containsAll, containsAny and the
\* reserved extension method names are accepted; .ip( and .decimal( are the
\* parse error "<name> is a function, not a method", any other name the
\* parse error "<name> is not a method".
C12_NotAMethod ==
    pc = "parsed" =>
        \A n \in MethodNames, a \in CallArgs :
            (Ex(<<TokIdent("context"), TokOp("."), TokIdent(n), TokOp("(")>>
                \o a \o <<TokOp(")")>>)
             /\ n \notin KnownMethods \cup ExtMethods)
              => /\ ~parsed.ok
                 /\ parsed.err.kind = "parse"
                 /\ parsed.err.msg =
                        IF n \in ExtFunctions
                        THEN n \o " is a function, not a method"
                        ELSE n \o " is not a method"

\* The key a key token of a record literal stands for.
KeyText(tok) == IF tok = TokString("\"k\"") THEN "k" ELSE tok.Text

\* The keys and values of a record literal of Records, in source order.
EntryCount(e) == (Len(e) - 1) \div 4
KeyAt(e, n) == KeyText(e[4 * n - 2])
ValueAt(e, n) == Leaf(e[4 * n])
Repeats(e) ==
    {n \in 1..EntryCount(e) : \E m \in 1..(n - 1) : KeyAt(e, m) = KeyAt(e, n)}
Minimum(S) == CHOOSE x \in S : \A y \in S : x <= y

\* C13: a record literal in which a key occurs twice, written as identifier
\* or as string, is rejected with a parse error "duplicate key"; a record
\* literal with distinct keys parses to the Record of exactly its entries.
C13_DuplicateKey ==
    (pc = "parsed" /\ ExprOf(tokens) \in Records) =>
        LET e == ExprOf(tokens) IN
        IF Repeats(e) # {}
        THEN /\ ~parsed.ok
             /\ parsed.err.kind = "parse"
             /\ parsed.err.msg =
                    "duplicate key: " \o KeyAt(e, Minimum(Repeats(e)))
        ELSE /\ ParsedOkWith(<<"Record",
                    [k \in {KeyAt(e, n) : n \in 1..EntryCount(e)} |->
                        ValueAt(e, CHOOSE n \in 1..EntryCount(e) :
                                       KeyAt(e, n) = k)]>>)

C13_Witness ==
    /\ pc = "parsed"
    /\ Ex(<<TokOp("{"), TokIdent("k"), TokOp(":"), TokInt("42"), TokOp(","),
            TokIdent("j"), TokOp(":"), TokInt("43"), TokOp(","),
            TokString("\"k\""), TokOp(":"), TokInt("43"), TokOp("}")>>)
    /\ ~parsed.ok
    /\ parsed.err.msg = "duplicate key: k"

\* C14: every error the policy parser returns, whatever its call site
\* (unexpected token, bad literal value, invalid ip or decimal argument, bad
\* string escape), is a parse error made by errorf, with its position prefix.
C14_ErrorPrefix ==
    (pc = "parsed" /\ ~parsed.ok) =>
        /\ parsed.err.kind = "parse"
        /\ parsed.err.at \in 0..(Len(tokens) - 1)

\* The prefix ip("...") stands for: a prefix as written, a bare address
\* with all its bits.
PrefixOfAddress(str) ==
    CASE str = TokString("\"1.2.3.4\"")    -> <<"1.2.3.4", 32>>
      [] str = TokString("\"10.0.0.0/8\"") -> <<"10.0.0.0", 8>>
      [] str = TokString("\"::1\"")        -> <<"::1", 128>>
      [] str = TokString("\"::1/128\"")    -> <<"::1", 128>>
      [] OTHER -> <<>>

\* C16: ip("...") accepts at parse time a CIDR prefix and a bare address,
\* the bare address becoming a /32 (IPv4) or /128 (IPv6) prefix; only a
\* string that is neither is rejected.
C16_IpBareAddress ==
    pc = "parsed" =>
        \A str \in ExtStrings :
            Ex(<<TokIdent("ip"), TokOp("("), str, TokOp(")")>>) =>
                IF PrefixOfAddress(str) # <<>>
                THEN ParsedOkWith(IPAddr(PrefixOfAddress(str)))
                ELSE ~parsed.ok

\* C15: after principal and after resource the scope takes == UID, in UID,
\* is TYPE, is TYPE in UID or nothing, after action == UID, in UID,
\* in [UID, ...] or nothing, and the policy records the constraint of that
\* kind with the UID or type read (none when nothing follows); any other
\* continuation is a parse error.
C15_ScopeForms ==
    pc = "parsed" =>
        \A pr \in VariableForms, ac \in ActionForms, re \in VariableForms :
            tokens = ScopePolicy(pr.toks, ac.toks, re.toks) =>
                IF <<"error">> \in {pr.want, ac.want, re.want}
                THEN ~parsed.ok
                ELSE /\ parsed.ok
                     /\ parsed.policy =
                          [Effect |-> "permit", Annotations |-> <<>>,
                           Principal |-> pr.want, Action |-> ac.want,
                           Resource |-> re.want, Conditions |-> <<>>]

C15_Witness ==
    /\ pc = "parsed"
    /\ parsed.ok
    /\ parsed.policy.Principal = <<"IsIn", "NS::User", Uid1>>
    /\ parsed.policy.Action = <<"InSet", <<Uid1, Uid2>>>>
    /\ parsed.policy.Resource = <<"In", Uid2>>

\* What a value denotes: a Long itself, a Set the set of what its elements
\* denote.
RECURSIVE Denotes(_)
Denotes(v) ==
    IF IsSet(v)
    THEN [tag |-> "Set", n |-> 0,
          elems |-> {Denotes(v[2][k]) : k \in 1..Len(v[2])}]
    ELSE [tag |-> "Long", n |-> v[2], elems |-> {}]

DenotedBy(values) == {Denotes(values[k]) : k \in 1..Len(values)}

\* C17: Sets are semantic sets: NewSet absorbs duplicates, so that the Len
\* of the set of [a, a] is 1, and Set.Equal ignores order and multiplicity:
\* two sets are Equal exactly when they have the same elements, nested sets
\* included.
C17_SetSemantics ==
    pc = "sets" =>
        /\ SetLen(sets[1]) = Cardinality(DenotedBy(slices[1]))
        /\ SetEqual(sets[1], sets[2])
              <=> (DenotedBy(slices[1]) = DenotedBy(slices[2]))
        /\ ValueEqual(sets[1], sets[2]) <=> ValueEqual(sets[2], sets[1])

C17_Witness ==
    /\ pc = "sets"
    /\ Len(slices[1]) = 3
    /\ Len(slices[2]) = 4
    /\ slices[1][1] # slices[1][2]
    /\ slices[2] = <<slices[1][3], slices[1][2], slices[1][1], slices[1][2]>>
    /\ SetEqual(sets[1], sets[2])
    /\ SetLen(sets[2]) = 2

\* C18: Allow serializes to the JSON string "allow" and Deny to "deny", and
\* decoding the serialized form of a Decision gives the Decision back.
C18_DecisionRoundTrip ==
    /\ pc \in {"marshalled", "unmarshalled"} =>
          wire = (IF decision = Allow THEN "\"allow\"" ELSE "\"deny\"")
    /\ pc = "unmarshalled" => decoded = decision

C18_Witness ==
    /\ pc = "unmarshalled"
    /\ decision = Allow
    /\ wire = "\"allow\""
    /\ decoded = Allow

\* The texts exact is asked for.
Wanted == {"(", ")", ",", ";", "::", ":", "{", "}", "]", "then", "else",
           "principal", "action", "resource"}

\* The message of a mismatch reported by exact on the token text got.
IsExactMessage(msg, got) ==
    \E want \in Wanted : msg = "exact got " \o got \o " want " \o want

\* C19, as claimed: the position and the token text quoted in a parse error
\* are those of the offending token; for a mismatch reported by exact as
\* got X want Y they are those of X.
C19_OffendingToken ==
    (pc = "parsed" /\ ~parsed.ok /\ parsed.err.kind = "parse"
     /\ \E k \in 1..Len(tokens) : IsExactMessage(parsed.err.msg, tokens[k].Text))
        => /\ IsExactMessage(parsed.err.msg, parsed.err.text)
           /\ IsExactMessage(parsed.err.msg, tokens[parsed.err.at + 1].Text)

\* C19, amended: the position and the token text quoted in a parse error are
\* those of the token under the cursor when the error is made, the token
\* after the last one consumed; for a mismatch reported by exact as got X
\* want Y they are those of the token that follows X (of X itself only when
\* X is the last token of the slice).
C19_CursorToken ==
    (pc = "parsed" /\ ~parsed.ok /\ parsed.err.kind = "parse") =>
        /\ parsed.err.at = parsed.pos
        /\ parsed.err.at \in 0..(Len(tokens) - 1)
        /\ parsed.err.text = tokens[parsed.err.at + 1].Text
        /\ (\E k \in 1..Len(tokens) :
                IsExactMessage(parsed.err.msg, tokens[k].Text))
              => \/ /\ parsed.err.at >= 1
                    /\ IsExactMessage(parsed.err.msg,
                                      tokens[parsed.err.at].Text)
                 \/ /\ parsed.err.at = Len(tokens) - 1
                    /\ IsExactMessage(parsed.err.msg,
                                      tokens[parsed.err.at + 1].Text)

C19_Witness ==
    /\ pc = "parsed"
    /\ ~parsed.ok
    /\ parsed.err.msg = "exact got , want ::"
    /\ parsed.err.text = "action"
    /\ tokens[parsed.err.at].Text = ","

\* C20: policyFromCedar terminates on every finite, non-empty token slice
\* the lexer gives, returning a policy or an error, also when the text stops
\* in the middle of a construct and advance keeps returning the last token.
C20_Terminates ==
    pc # "lexed" =>
        /\ pc = "parsed"
        /\ parsed.ok \/ parsed.err.kind \in {"parse", "raw"}

\* The text stopped after a unary operator, or where a bracket or an if
\* opened an expression: the parser returned an error with the cursor on the
\* last token.
C20_Witness ==
    /\ pc = "parsed"
    /\ Len(tokens) > 1
    /\ tokens[Len(tokens)] = TokEOF
    /\ tokens[Len(tokens) - 1].Text \in {"-", "!", "(", "[", "if"}
    /\ ~parsed.ok
    /\ parsed.err.kind = "parse"
    /\ parsed.pos = Len(tokens) - 1

\* A policy set with one more policy, of the given effect and condition, put
\* before index k (0-based; k = Len(ps) puts it last).
ExtraPolicy(eff, body) ==
    [Position |-> [Filename |-> "policy.cedar", Offset |-> 0, Line |-> 1,
                   Column |-> 1],
     Effect |-> eff, eval |-> body, ast |-> body]

WithPolicy(ps, k, eff, body) ==
    SubSeq(ps, 1, k) \o <<ExtraPolicy(eff, body)>>
        \o SubSeq(ps, k + 1, Len(ps))

\* C21: for one request and entity store, adding a forbid policy to a policy
\* set never turns Deny into Allow, and adding a permit policy never turns
\* Allow into Deny, wherever the policy is added and whatever its condition
\* evaluates to.
C21_Monotone ==
    pc = "done" =>
        \A k \in 0..Len(policies), body \in Bodies :
            /\ decision = Deny =>
                 IsAuthorizedOf(WithPolicy(policies, k, Forbid, body)).Decision
                     = Deny
            /\ decision = Allow =>
                 IsAuthorizedOf(WithPolicy(policies, k, Permit, body)).Decision
                     = Allow

C21_Witness ==
    /\ pc = "done"
    /\ Len(policies) = 2
    /\ decision = Allow
    /\ IsAuthorizedOf(WithPolicy(policies, 1, Permit, "when { true }")).Decision
           = Allow
    /\ IsAuthorizedOf(WithPolicy(policies, 1, Forbid, "when { true }")).Decision
           = Deny
    /\ Len(IsAuthorizedOf(WithPolicy(policies, 1, Permit, "when { true }"))
               .Diagnostic.Reasons) = Len(diag.Reasons) + 1

\* C22: when unmarshalJSON returns an error (invalid extension function
\* name, invalid ip or decimal argument, malformed set or record,
\* undecodable JSON, integer outside 64 bits, unsupported JSON type) the
\* destination *v is what it was when the call was made.
C22_ErrorLeavesValue ==
    (pc = "returned" /\ frame.err # "") => frame.v = frame.v0

\* C23: over a non-empty token slice the cursor stays within
\* 0..len(tokens)-1, so that peek indexes a token; pos never decreases;
\* advance returns the token it started at and moves one token on, except
\* at the last token, where pos stays and the last token is returned again.
C23_CursorInvariant ==
    pc = "cursor" =>
        /\ cursor.pos \in 0..(Len(tokens) - 1)
        /\ cursor.pos + 1 \in DOMAIN tokens
        /\ cursor.advanced =>
            /\ cursor.pos >= cursor.from
            /\ cursor.t = tokens[cursor.from + 1]
            /\ cursor.from < Len(tokens) - 1 => cursor.pos = cursor.from + 1
            /\ cursor.from = Len(tokens) - 1 =>
                /\ cursor.pos = cursor.from
                /\ cursor.t = tokens[Len(tokens)]

\* advance was called at the last token of a slice it had walked through.
C23_Witness ==
    /\ pc = "cursor"
    /\ Len(tokens) > 2
    /\ cursor.advanced
    /\ cursor.from = Len(tokens) - 1
    /\ cursor.pos = Len(tokens) - 1
    /\ cursor.t = tokens[Len(tokens)]

====
